---- MODULE Spec2Model ----
(***************************************************************************)
(* Sliding-puzzle state engine: board utilities (ArrayUtils.js), the move  *)
(* validator (Validator.js) and the Puzzle session (PuzzleLogic).          *)
(*                                                                         *)
(* A board is a function [0..S-1 -> [0..S-1 -> Int]], indexed as the       *)
(* source's puzzle[row][col].  A position is a record [row, col].          *)
(* JavaScript's null is Null (the empty tuple); a non-null value x held    *)
(* in a nullable field is Some(x).                                         *)
(***************************************************************************)
EXTENDS Integers, Sequences, FiniteSets, TLC

\* ---------------------------------------------------------------- bounds
MaxShuffle == 8
MaxSessionShuffle == 1
MaxBudget == 1
MaxMoveCount == 2
MaxNow == 2
MaxExchanges == 1
MaxRegistrations == 2
MaxEmits == 2
MaxDepth == 2

\* ------------------------------------------------------------- constants
EMPTY_TILE == 0
DefaultMaxMoves == 100
Sizes == {3, 4, 5}
\* sessions are explored for one odd and one even size
SessionSizes == {3, 4}

DIRECTIONS ==
  << [x |-> 0, y |-> -1, name |-> "up"],
     [x |-> 0, y |-> 1, name |-> "down"],
     [x |-> -1, y |-> 0, name |-> "left"],
     [x |-> 1, y |-> 0, name |-> "right"] >>

Null == << >>
Some(x) == << x >>

Abs(n) == IF n < 0 THEN -n ELSE n

\* ------------------------------------------------------- board utilities
Pos(r, c) == [row |-> r, col |-> c]

Length2D(puzzle) == Cardinality(DOMAIN puzzle)

createSolvedPuzzle(size) ==
  [row \in 0..(size - 1) |->
    [col \in 0..(size - 1) |->
      IF row = size - 1 /\ col = size - 1
        THEN EMPTY_TILE
        ELSE row * size + col + 1]]

\* array.flat(): the rows one after another, as a sequence
flatten2DArray(array2D) ==
  LET n == Length2D(array2D)
  IN [i \in 1..(n * n) |-> array2D[(i - 1) \div n][(i - 1) % n]]

\* first match of a row-major scan, or Null
findPosition(puzzle, value) ==
  LET n == Length2D(puzzle)
      hits == {i \in 0..(n * n - 1) : puzzle[i \div n][i % n] = value}
  IN IF hits = {} THEN Null
     ELSE LET first == CHOOSE i \in hits : \A j \in hits : i <= j
          IN Some(Pos(first \div n, first % n))

findEmptyPosition(puzzle) == findPosition(puzzle, EMPTY_TILE)

getValueAt(puzzle, row, col) ==
  IF row >= 0 /\ row < Length2D(puzzle) /\ col >= 0 /\ col < Length2D(puzzle)
    THEN Some(puzzle[row][col])
    ELSE Null

swapPositions(puzzle, pos1, pos2) ==
  LET temp == puzzle[pos1.row][pos1.col]
      step1 == [puzzle EXCEPT ![pos1.row][pos1.col] = puzzle[pos2.row][pos2.col]]
  IN [step1 EXCEPT ![pos2.row][pos2.col] = temp]

getAdjacentPositions(row, col, size) ==
  LET cand == [i \in 1..4 |-> Pos(row + DIRECTIONS[i].y, col + DIRECTIONS[i].x)]
      InBounds(p) == p.row >= 0 /\ p.row < size /\ p.col >= 0 /\ p.col < size
  IN SelectSeq(cand, InBounds)

\* mutant: only horizontal neighbours count
areAdjacent_sameRowOnly(pos1, pos2) ==
  pos1.row = pos2.row /\ Abs(pos1.col - pos2.col) = 1

areAdjacent(pos1, pos2) ==
  LET rowDiff == Abs(pos1.row - pos2.row)
      colDiff == Abs(pos1.col - pos2.col)
  IN (rowDiff = 1 /\ colDiff = 0) \/ (rowDiff = 0 /\ colDiff = 1)

\* the scan returns at the first mismatch, or at the last cell
isPuzzleSolved(puzzle) ==
  LET size == Length2D(puzzle)
  IN /\ \A i \in 0..(size * size - 2) : puzzle[i \div size][i % size] = i + 1
     /\ puzzle[size - 1][size - 1] = EMPTY_TILE

RECURSIVE InversionsFrom(_, _)
\* the double loop's count for outer index i and beyond
InversionsFrom(tilesOnly, i) ==
  IF i > Len(tilesOnly) THEN 0
  ELSE Cardinality({j \in (i + 1)..Len(tilesOnly) : tilesOnly[i] > tilesOnly[j]})
       + InversionsFrom(tilesOnly, i + 1)

Inversions(tilesOnly) == InversionsFrom(tilesOnly, 1)

\* mutant: the even-size rule is dropped
isPuzzleSolvable_ignoringEmptyRow(puzzle) ==
  LET IsTile(tile) == tile # EMPTY_TILE
  IN Inversions(SelectSeq(flatten2DArray(puzzle), IsTile)) % 2 = 0

\* mutant: the empty tile is counted among the inversions
isPuzzleSolvable_countingEmpty(puzzle) ==
  LET size == Length2D(puzzle)
      inversions == Inversions(flatten2DArray(puzzle))
  IN IF size % 2 = 1
       THEN inversions % 2 = 0
       ELSE LET emptyPos == findEmptyPosition(puzzle)[1]
                emptyRowFromBottom == size - emptyPos.row
            IN IF emptyRowFromBottom % 2 = 1
                 THEN inversions % 2 = 0
                 ELSE inversions % 2 = 1

\* mutant: the row of the empty cell is consulted for every size
isPuzzleSolvable_emptyRowForEverySize(puzzle) ==
  LET size == Length2D(puzzle)
      IsTile(tile) == tile # EMPTY_TILE
      inversions == Inversions(SelectSeq(flatten2DArray(puzzle), IsTile))
      emptyRowFromBottom == size - findEmptyPosition(puzzle)[1].row
  IN IF emptyRowFromBottom % 2 = 1
       THEN inversions % 2 = 0
       ELSE inversions % 2 = 1

isPuzzleSolvable(puzzle) ==
  LET size == Length2D(puzzle)
      flatPuzzle == flatten2DArray(puzzle)
      IsTile(tile) == tile # EMPTY_TILE
      tilesOnly == SelectSeq(flatPuzzle, IsTile)
      inversions == Inversions(tilesOnly)
  IN IF size % 2 = 1
       THEN inversions % 2 = 0
       ELSE LET emptyPos == findEmptyPosition(puzzle)[1]
                emptyRowFromBottom == size - emptyPos.row
            IN IF emptyRowFromBottom % 2 = 1
                 THEN inversions % 2 = 0
                 ELSE inversions % 2 = 1

\* ------------------------------------------------------------- generator
\* Loop state of generateSolvablePuzzle: puzzle, emptyPos, lastMove, i.
GenInit(size) ==
  LET puzzle == createSolvedPuzzle(size)
  IN [puzzle |-> puzzle, emptyPos |-> findEmptyPosition(puzzle)[1],
      lastMove |-> Null, i |-> 0]

\* mutant: the previous empty position is not filtered out
GenValidMoves_noFilter(g, size) ==
  getAdjacentPositions(g.emptyPos.row, g.emptyPos.col, size)

\* validMoves: the neighbours of the empty cell without lastMove
GenValidMoves(g, size) ==
  LET adjacent == getAdjacentPositions(g.emptyPos.row, g.emptyPos.col, size)
      Keep(pos) == IF g.lastMove = Null THEN TRUE
                   ELSE ~(pos.row = g.lastMove[1].row /\ pos.col = g.lastMove[1].col)
  IN SelectSeq(adjacent, Keep)

\* one loop iteration; k is Math.floor(Math.random() * validMoves.length)
GenStep(g, size, k) ==
  LET validMoves == GenValidMoves(g, size)
      randomMove == validMoves[k + 1]
  IN [puzzle |-> swapPositions(g.puzzle, g.emptyPos, randomMove),
      emptyPos |-> randomMove,
      lastMove |-> Some(g.emptyPos),
      i |-> g.i + 1]

RECURSIVE GenRun(_, _, _)
\* every loop state the remaining `left` iterations can end in (an empty
\* validMoves makes randomMove undefined and the swap throw: no result)
GenRun(g, size, left) ==
  IF left = 0 THEN {g}
  ELSE UNION {GenRun(GenStep(g, size, k), size, left - 1) :
                k \in 0..(Len(GenValidMoves(g, size)) - 1)}

\* the boards generateSolvablePuzzle(size, shuffleMoves) can return
generateSolvablePuzzle(size, shuffleMoves) ==
  {g.puzzle : g \in GenRun(GenInit(size), size, shuffleMoves)}

\* ------------------------------------------------------------- validator
isValidBoardPosition(row, col, size) ==
  row >= 0 /\ row < size /\ col >= 0 /\ col < size

\* mutant: adjacency is tested before the empty-tile test
validateTileMove_adjacencyFirst(puzzle, row, col) ==
  IF ~isValidBoardPosition(row, col, Length2D(puzzle))
    THEN [valid |-> FALSE, reason |-> "Position out of bounds", details |-> Null]
  ELSE LET tileValue == getValueAt(puzzle, row, col)
           emptyPos == findEmptyPosition(puzzle)
           tilePos == Pos(row, col)
       IN IF emptyPos = Null
            THEN [valid |-> FALSE, reason |-> "Empty tile not found", details |-> Null]
          ELSE IF ~areAdjacent(tilePos, emptyPos[1])
            THEN [valid |-> FALSE, reason |-> "Tile not adjacent to empty space",
                  details |-> Null]
          ELSE IF tileValue = Some(EMPTY_TILE)
            THEN [valid |-> FALSE, reason |-> "Cannot move empty tile", details |-> Null]
          ELSE [valid |-> TRUE, reason |-> "Valid move",
                details |-> Some([tileValue |-> tileValue[1], tilePosition |-> tilePos,
                                  emptyPosition |-> emptyPos[1]])]

\* the result's valid flag, reason and (for a valid move) details
validateTileMove(puzzle, row, col) ==
  IF ~isValidBoardPosition(row, col, Length2D(puzzle))
    THEN [valid |-> FALSE, reason |-> "Position out of bounds", details |-> Null]
  ELSE LET tileValue == getValueAt(puzzle, row, col)
           emptyPos == findEmptyPosition(puzzle)
           tilePos == Pos(row, col)
       IN IF tileValue = Some(EMPTY_TILE)
            THEN [valid |-> FALSE, reason |-> "Cannot move empty tile", details |-> Null]
          ELSE IF emptyPos = Null
            THEN [valid |-> FALSE, reason |-> "Empty tile not found", details |-> Null]
          ELSE IF ~areAdjacent(tilePos, emptyPos[1])
            THEN [valid |-> FALSE, reason |-> "Tile not adjacent to empty space",
                  details |-> Null]
          ELSE [valid |-> TRUE, reason |-> "Valid move",
                details |-> Some([tileValue |-> tileValue[1], tilePosition |-> tilePos,
                                  emptyPosition |-> emptyPos[1]])]

\* mutant: the directions are gone through left, right, up, down
getValidMoves_leftFirst(puzzle) ==
  LET emptyPos == findEmptyPosition(puzzle)
      size == Length2D(puzzle)
      order == << 3, 4, 1, 2 >>
      cand == [i \in 1..4 |-> [row |-> emptyPos[1].row + DIRECTIONS[order[i]].y,
                               col |-> emptyPos[1].col + DIRECTIONS[order[i]].x,
                               direction |-> DIRECTIONS[order[i]].name]]
      InBounds(m) == isValidBoardPosition(m.row, m.col, size)
      found == SelectSeq(cand, InBounds)
  IN IF emptyPos = Null THEN << >>
     ELSE [i \in 1..Len(found) |->
            [row |-> found[i].row, col |-> found[i].col,
             tileValue |-> getValueAt(puzzle, found[i].row, found[i].col)[1],
             direction |-> found[i].direction]]

\* the list of {row, col, tileValue, direction} pushed while going through
\* Object.values(MECHANICS.DIRECTIONS)
getValidMoves(puzzle) ==
  LET emptyPos == findEmptyPosition(puzzle)
      size == Length2D(puzzle)
      cand == [i \in 1..4 |-> [row |-> emptyPos[1].row + DIRECTIONS[i].y,
                               col |-> emptyPos[1].col + DIRECTIONS[i].x,
                               direction |-> DIRECTIONS[i].name]]
      InBounds(m) == isValidBoardPosition(m.row, m.col, size)
      found == SelectSeq(cand, InBounds)
  IN IF emptyPos = Null THEN << >>
     ELSE [i \in 1..Len(found) |->
            [row |-> found[i].row, col |-> found[i].col,
             tileValue |-> getValueAt(puzzle, found[i].row, found[i].col)[1],
             direction |-> found[i].direction]]

\* -------------------------------------------------------- notifications
\* Constants.js EVENTS: the names the keys stand for
EVENTS ==
  [GAME_STATE_CHANGED |-> "gameStateChanged", PUZZLE_SOLVED |-> "puzzleSolved",
   GAME_OVER |-> "gameOver", LEVEL_COMPLETE |-> "levelComplete",
   TILE_MOVED |-> "tileMoved", INVALID_MOVE |-> "invalidMove",
   MODAL_OPENED |-> "modalOpened", MODAL_CLOSED |-> "modalClosed",
   SETTINGS_CHANGED |-> "settingsChanged", PROGRESS_SAVED |-> "progressSaved",
   PROGRESS_LOADED |-> "progressLoaded"]

\* EVENTS.key: the name, or undefined (Null) for a key EVENTS does not have
EventName(key) == IF key \in DOMAIN EVENTS THEN Some(EVENTS[key]) ELSE Null

\* this.events[eventName]: an undefined name reads property "undefined"
PropertyKey(eventName) == IF eventName = Null THEN "undefined" ELSE eventName[1]

\* on(eventName, listener) on registry `events` (names to listener
\* sequences): throws unless the name is a string, else appends the listener
on(events, eventName, listener) ==
  IF eventName = Null
    THEN [threw |-> TRUE, events |-> events]
    ELSE [threw |-> FALSE,
          events |-> IF eventName[1] \in DOMAIN events
                       THEN [events EXCEPT ![eventName[1]] = Append(@, listener)]
                       ELSE events @@ (eventName[1] :> << listener >>)]

\* emit(eventName, ...): the listeners called, in order
emit(events, eventName) ==
  IF PropertyKey(eventName) \in DOMAIN events
    THEN events[PropertyKey(eventName)]
    ELSE << >>

\* ------------------------------------------------------------- analysis
\* the cells of an n x n board in the order of the row and column loops
CellsInOrder(n) == [i \in 1..(n * n) |-> Pos((i - 1) \div n, (i - 1) % n)]

\* mutant: the last cell is expected to hold tile size * size
validateWinCondition_noEmptyTile(puzzle) ==
  LET size == Length2D(puzzle)
      solvedState == [createSolvedPuzzle(size) EXCEPT ![size - 1][size - 1] = size * size]
      Wrong(p) == puzzle[p.row][p.col] # solvedState[p.row][p.col]
      wrong == SelectSeq(CellsInOrder(size), Wrong)
      misplacedTiles == [i \in 1..Len(wrong) |->
                          [position |-> wrong[i],
                           currentValue |-> puzzle[wrong[i].row][wrong[i].col],
                           expectedValue |-> solvedState[wrong[i].row][wrong[i].col]]]
      correctTiles == size * size - Len(wrong)
      totalTiles == size * size
  IN [solved |-> correctTiles = totalTiles,
      correctTiles |-> correctTiles,
      totalTiles |-> totalTiles,
      misplacedTiles |-> misplacedTiles,
      details |-> [remainingMoves |-> Len(misplacedTiles),
                   perfectSolution |-> correctTiles = totalTiles]]

\* validateWinCondition(puzzle): every cell is compared with the solved
\* board; completionPercentage (a floating-point ratio) is not carried
validateWinCondition(puzzle) ==
  LET size == Length2D(puzzle)
      solvedState == createSolvedPuzzle(size)
      Wrong(p) == puzzle[p.row][p.col] # solvedState[p.row][p.col]
      wrong == SelectSeq(CellsInOrder(size), Wrong)
      misplacedTiles == [i \in 1..Len(wrong) |->
                          [position |-> wrong[i],
                           currentValue |-> puzzle[wrong[i].row][wrong[i].col],
                           expectedValue |-> solvedState[wrong[i].row][wrong[i].col]]]
      correctTiles == size * size - Len(wrong)
      totalTiles == size * size
  IN [solved |-> correctTiles = totalTiles,
      correctTiles |-> correctTiles,
      totalTiles |-> totalTiles,
      misplacedTiles |-> misplacedTiles,
      details |-> [remainingMoves |-> Len(misplacedTiles),
                   perfectSolution |-> correctTiles = totalTiles]]

RECURSIVE ManhattanFrom(_, _, _)
\* the double loop's sum for flat cell index i and beyond
ManhattanFrom(puzzle, size, i) ==
  IF i >= size * size THEN 0
  ELSE LET row == i \div size
           col == i % size
           value == puzzle[row][col]
       IN (IF value # EMPTY_TILE
             THEN Abs(row - ((value - 1) \div size)) + Abs(col - ((value - 1) % size))
             ELSE 0)
          + ManhattanFrom(puzzle, size, i + 1)

\* mutant: a tile counts 1 when it stands outside its target row
getManhattanDistance_rowsOnly(puzzle, size) ==
  Cardinality({p \in (0..(size - 1)) \X (0..(size - 1)) :
                 /\ puzzle[p[1]][p[2]] # EMPTY_TILE
                 /\ (puzzle[p[1]][p[2]] - 1) \div size # p[1]})

\* mutant: the empty cell's distance from the last cell is added
getManhattanDistance_countingEmpty(puzzle, size) ==
  LET emptyPos == findEmptyPosition(puzzle)[1]
  IN ManhattanFrom(puzzle, size, 0)
       + Abs(emptyPos.row - (size - 1)) + Abs(emptyPos.col - (size - 1))

getManhattanDistance(puzzle, size) == ManhattanFrom(puzzle, size, 0)

\* pairs of tiles that stand in their target row (column) in the wrong
\* order; tiles are collected in scan order, so tile1 stands before tile2
calculateLinearConflicts(puzzle) ==
  LET size == Length2D(puzzle)
      TargetRow(value) == (value - 1) \div size
      TargetCol(value) == (value - 1) % size
      InRow(row, col) ==
        puzzle[row][col] # EMPTY_TILE /\ TargetRow(puzzle[row][col]) = row
      InCol(row, col) ==
        puzzle[row][col] # EMPTY_TILE /\ TargetCol(puzzle[row][col]) = col
      rowConflicts ==
        {t \in (0..(size - 1)) \X (0..(size - 1)) \X (0..(size - 1)) :
           /\ t[2] < t[3]
           /\ InRow(t[1], t[2])
           /\ InRow(t[1], t[3])
           /\ TargetCol(puzzle[t[1]][t[2]]) > TargetCol(puzzle[t[1]][t[3]])}
      colConflicts ==
        {t \in (0..(size - 1)) \X (0..(size - 1)) \X (0..(size - 1)) :
           /\ t[2] < t[3]
           /\ InCol(t[2], t[1])
           /\ InCol(t[3], t[1])
           /\ TargetRow(puzzle[t[2]][t[1]]) > TargetRow(puzzle[t[3]][t[1]])}
  IN Cardinality(rowConflicts) + Cardinality(colConflicts)

\* analyzeSolutionProgress(puzzle): the distance is summed by a loop of its
\* own; progressPercentage and difficulty are not carried
analyzeSolutionProgress(puzzle) ==
  LET winCondition == validateWinCondition(puzzle)
      size == Length2D(puzzle)
      totalManhattanDistance == ManhattanFrom(puzzle, size, 0)
      linearConflicts == calculateLinearConflicts(puzzle)
  IN [correctTiles |-> winCondition.correctTiles,
      totalTiles |-> winCondition.totalTiles,
      manhattanDistance |-> totalManhattanDistance,
      linearConflicts |-> linearConflicts,
      estimatedMovesToSolution |-> totalManhattanDistance + 2 * linearConflicts,
      solved |-> winCondition.solved]

\* board with the contents of flat cells a and b exchanged
Exchange(board, a, b) ==
  LET n == Length2D(board)
  IN swapPositions(board, Pos(a \div n, a % n), Pos(b \div n, b % n))

RECURSIVE ExchangedBoards(_, _)
\* solved(n) after at most k exchanges of two cells
ExchangedBoards(n, k) ==
  IF k = 0 THEN {createSolvedPuzzle(n)}
  ELSE LET prev == ExchangedBoards(n, k - 1)
           pairs == {pq \in (0..(n * n - 1)) \X (0..(n * n - 1)) : pq[1] < pq[2]}
       IN prev \cup {Exchange(board, pq[1], pq[2]) : board \in prev, pq \in pairs}

\* boards handed to the analysis functions: size 5 after one exchange,
\* size 4 after MaxExchanges, size 3 after two more
AnalysisBoards ==
  ExchangedBoards(5, 1) \cup ExchangedBoards(4, MaxExchanges)
    \cup ExchangedBoards(3, MaxExchanges + 2)

\* ---------------------------------------------------------------- state
VARIABLES
  size,          \* Puzzle.size
  currentState,  \* Puzzle.currentState
  initialState,  \* Puzzle.initialState
  solvedState,   \* Puzzle.solvedState
  moveHistory,   \* Puzzle.moveHistory: sequence of move records
  moveCount,     \* Puzzle.moveCount
  maxMoves,      \* Puzzle.maxMoves
  startTime,     \* Puzzle.startTime: Null or Some(t)
  endTime,       \* Puzzle.endTime: Null or Some(t)
  isComplete,    \* Puzzle.isComplete
  now,           \* the wall clock Date.now() reads
  last,          \* the last call: its name, return value, notifications, the
                 \* board, move count and history length a move call found,
                 \* and the board a call took over from its caller; for a validator
                 \* call, the board and the position it was given
  gsize,         \* generateSolvablePuzzle: argument size
  gshuffle,      \* generateSolvablePuzzle: argument shuffleMoves
  gen,           \* generateSolvablePuzzle: puzzle, emptyPos, lastMove, i
  gpc,           \* generateSolvablePuzzle: "idle", "loop", "threw" or "done"
  svisited,      \* search: the 3x3 boards found to lead to solved(3)
  sfrontier,     \* search: those found in the last round
  sreport,       \* search: Null, or Some(a board the search reported finding)
  gameBoard,     \* GameBoard: isAnimating, and where the _attemptMove call in
                 \* progress stands
  engine,        \* GameEngine: gameState and gameData.score
  emitter,       \* an EventEmitter: the listeners of one event, the emit calls
                 \* in progress, and a log of the listener calls made
  held           \* the caller: the board it has kept from a query or a
                 \* notification, as its own copy or as a reference to one of
                 \* the session's boards

session == << size, currentState, initialState, solvedState, moveHistory,
              moveCount, maxMoves, startTime, endTime, isComplete >>
genvars == << gsize, gshuffle, gen, gpc >>
searchvars == << svisited, sfrontier, sreport >>
uivars == << gameBoard, engine >>
vars == << size, currentState, initialState, solvedState, moveHistory,
           moveCount, maxMoves, startTime, endTime, isComplete, now, last,
           gsize, gshuffle, gen, gpc,
           svisited, sfrontier, sreport, emitter, gameBoard, engine, held >>

\* ------------------------------------------------------- session helpers
\* what a move call found: the board, the move count and the history length
Found == [currentState |-> currentState, moveCount |-> moveCount,
          historyLength |-> Len(moveHistory)]

\* the record of a call; pre is what it found if it was a move, else Null
Call(op, result, emitted) ==
  [op |-> op, result |-> result, emitted |-> emitted,
   pre |-> IF op \in {"moveTile", "moveTileByValue"} THEN Some(Found) ELSE Null,
   arg |-> Null]

\* the record of a call that took over the board handed to it
CallWith(board, op, result, emitted) ==
  [Call(op, result, emitted) EXCEPT !.arg = Some(board)]

\* the record of the constructor call
Constructed ==
  [op |-> "constructor", result |-> "void", emitted |-> << >>, pre |-> Null, arg |-> Null]

Note(event, reason) == [event |-> event, reason |-> reason]

\* What the caller holds.  `from` names the query or notification that gave
\* it the board; `ref` says what the board is: the caller's own copy (kept in
\* `board`), or the very array the session keeps in currentState, in
\* initialState, or in record `index` of moveHistory as previousState or
\* currentState.
NoRef == [from |-> "none", ref |-> "none", index |-> 0, board |-> Null]
Copy(from, board) == [from |-> from, ref |-> "copy", index |-> 0, board |-> Some(board)]
Ref(from, ref, index) == [from |-> from, ref |-> ref, index |-> index, board |-> Null]

\* generatePuzzle, setPuzzleState and importState put new arrays in
\* currentState, initialState and moveHistory
HeldAfterInstall == IF held.ref = "copy" THEN held ELSE NoRef

\* _executeMove puts a new array in currentState
HeldAfterMove == IF held.ref = "currentState" THEN NoRef ELSE held

\* undoLastMove pops the last record and makes its previousState array the
\* current board
HeldAfterUndo ==
  IF held.ref = "previousState" /\ held.index = Len(moveHistory)
    THEN Ref(held.from, "currentState", 0)
  ELSE IF held.ref = "currentState"
          \/ (held.ref = "record.currentState" /\ held.index = Len(moveHistory))
    THEN NoRef
  ELSE held

\* reset puts new arrays in currentState and moveHistory
HeldAfterReset == IF held.ref \in {"copy", "initialState"} THEN held ELSE NoRef

\* boards handed to setPuzzleState: solved(size) with the last three cells
\* of its last row permuted in every way (three are accepted, three refused)
InputBoards(n) ==
  LET cells == {n * n - 3, n * n - 2, n * n - 1}
      solved == createSolvedPuzzle(n)
      perms == {f \in [cells -> cells] : \A a, b \in cells : a # b => f[a] # f[b]}
  IN {[row \in 0..(n - 1) |-> [col \in 0..(n - 1) |->
         IF row * n + col \in cells
           THEN solved[f[row * n + col] \div n][f[row * n + col] % n]
           ELSE solved[row][col]]] : f \in perms}

Budgets == 1..MaxBudget

\* the generator's possible results and the boards handed in, per size
GeneratedBoards ==
  [n \in SessionSizes |-> [k \in 0..MaxSessionShuffle |-> generateSolvablePuzzle(n, k)]]

GivenBoards == [n \in SessionSizes |-> InputBoards(n)]

\* positions handed to moveTile: every cell of the grid, and one position
\* off the grid for each of the four bounds tests
MovePositions(n) ==
  ((0..(n - 1)) \X (0..(n - 1)))
    \cup {<< -1, 0 >>, << n, n - 1 >>, << 0, -1 >>, << n - 1, n >>}

\* ------------------------------------------------------- session actions
\* new Puzzle(size): constructor and _initializePuzzle
PuzzleInit(n) ==
  /\ size = n
  /\ solvedState = createSolvedPuzzle(n)
  /\ currentState = createSolvedPuzzle(n)
  /\ initialState = createSolvedPuzzle(n)
  /\ moveHistory = << >>
  /\ moveCount = 0
  /\ maxMoves = DefaultMaxMoves
  /\ startTime = Null
  /\ endTime = Null
  /\ isComplete = FALSE

GenIdle ==
  /\ gsize = 3
  /\ gshuffle = 0
  /\ gen = GenInit(3)
  /\ gpc = "idle"

\* new EventEmitter(): no listeners, no emit in progress.  Besides the
\* listeners of the one event considered (events), the record keeps the
\* emit calls in progress, innermost last (stack), and what the program does
\* not keep: every registration made (regs), every listener call made, by
\* registration id (log), the functions off was called with from outside
\* emit's own loop (offed), the emit call that returned last (finished) and
\* what the last outermost emit call did: "true", "false" or "throws" (returned)
EmitterIdle ==
  emitter = [events |-> << >>, stack |-> << >>, regs |-> << >>, log |-> << >>,
             offed |-> {}, emits |-> 0, finished |-> Null, returned |-> Null]

\* new GameBoard(), new GameEngine(): no move attempt in progress, score 0.
\* gameBoard.pc says where the _attemptMove call in progress stands: "idle"
\* (none), "calling" (isAnimating set, moveTile being called) or "awaiting"
\* (suspended at the await); event and outcome describe the last handler
\* call.  engine.before and engine.stats are the score _handlePuzzleSolved
\* found and the statistics it was given, which the program does not keep
UiIdle ==
  /\ gameBoard = [isAnimating |-> FALSE, pc |-> "idle", row |-> 0, col |-> 0,
                  event |-> Null, outcome |-> Null]
  /\ engine = [gameState |-> "menu", score |-> 0, before |-> 0, stats |-> Null]

SearchIdle ==
  /\ svisited = {}
  /\ sfrontier = {}
  /\ sreport = Null

Init ==
  /\ \E n \in SessionSizes : PuzzleInit(n)
  /\ now = 1
  /\ last = Constructed
  /\ GenIdle
  /\ SearchIdle
  /\ EmitterIdle
  /\ UiIdle
  /\ held = NoRef

\* the wall clock advances between calls
Tick ==
  /\ now < MaxNow
  /\ now' = now + 1
  /\ UNCHANGED << session, last, genvars, searchvars, emitter, uivars, held >>

\* mutant: a shuffle count of 0 is taken for a missing one and replaced
generatePuzzle_zeroIsDefault(shuffleMoves, budget) ==
  /\ \E board \in GeneratedBoards[size][IF shuffleMoves = 0 THEN MaxSessionShuffle
                                          ELSE shuffleMoves] :
       /\ currentState' = board
       /\ initialState' = board
  /\ maxMoves' = budget
  /\ moveHistory' = << >>
  /\ moveCount' = 0
  /\ startTime' = Null
  /\ endTime' = Null
  /\ isComplete' = FALSE
  /\ last' = Call("generatePuzzle", "void", << Note("PUZZLE_GENERATED", "") >>)
  /\ held' = HeldAfterInstall
  /\ UNCHANGED << size, solvedState, now, genvars, searchvars, emitter, uivars >>

\* generatePuzzle(shuffleMoves, maxMoves): the generator's board becomes the
\* current board, a clone of it the initial board; all else is cleared
generatePuzzle(shuffleMoves, budget) ==
  /\ \E board \in GeneratedBoards[size][shuffleMoves] :
       /\ currentState' = board
       /\ initialState' = board
  /\ maxMoves' = budget
  /\ moveHistory' = << >>
  /\ moveCount' = 0
  /\ startTime' = Null
  /\ endTime' = Null
  /\ isComplete' = FALSE
  /\ last' = Call("generatePuzzle", "void", << Note("PUZZLE_GENERATED", "") >>)
  /\ held' = HeldAfterInstall
  /\ UNCHANGED << size, solvedState, now, genvars, searchvars, emitter, uivars >>

\* mutant: the board is installed before it is checked
setPuzzleState_installsBeforeCheck(puzzleState, budget) ==
  /\ currentState' = puzzleState
  /\ initialState' = puzzleState
  /\ maxMoves' = budget
  /\ moveHistory' = << >>
  /\ moveCount' = 0
  /\ startTime' = Null
  /\ endTime' = Null
  /\ isComplete' = FALSE
  /\ last' = IF Length2D(puzzleState) # size \/ ~isPuzzleSolvable(puzzleState)
              THEN Call("setPuzzleState", "throws", << >>)
              ELSE CallWith(puzzleState, "setPuzzleState", "void",
                            << Note("PUZZLE_STATE_SET", "") >>)
  /\ held' = HeldAfterInstall
  /\ UNCHANGED << size, solvedState, now, genvars, searchvars, emitter, uivars >>

setPuzzleState(puzzleState, budget) ==
  IF Length2D(puzzleState) # size \/ ~isPuzzleSolvable(puzzleState)
    THEN /\ last' = Call("setPuzzleState", "throws", << >>)
         /\ UNCHANGED << session, now, genvars, searchvars, emitter, uivars, held >>
    ELSE /\ currentState' = puzzleState
         /\ initialState' = puzzleState
         /\ maxMoves' = budget
         /\ moveHistory' = << >>
         /\ moveCount' = 0
         /\ startTime' = Null
         /\ endTime' = Null
         /\ isComplete' = FALSE
         /\ last' = CallWith(puzzleState, "setPuzzleState", "void",
                              << Note("PUZZLE_STATE_SET", "") >>)
         /\ held' = HeldAfterInstall
  /\ UNCHANGED << size, solvedState, now, genvars, searchvars, emitter, uivars >>

\* mutant: the tile is copied into the empty cell and not cleared at its source
executeMoveState_copyOnly(tilePos, emptyPos) ==
  [currentState EXCEPT ![emptyPos.row][emptyPos.col] = currentState[tilePos.row][tilePos.col]]

\* _executeMove: the new board and the record pushed onto the history (its
\* timestamp field, which nothing in the engine reads, is left out)
executeMoveState(tilePos, emptyPos) == swapPositions(currentState, tilePos, emptyPos)

\* mutant: the snapshot is taken after the swap
executeMoveData_snapshotAfterSwap(tilePos, emptyPos) ==
  [moveNumber |-> moveCount + 1,
   tileValue |-> getValueAt(currentState, tilePos.row, tilePos.col)[1],
   from |-> tilePos,
   to |-> emptyPos,
   previousState |-> swapPositions(currentState, tilePos, emptyPos),
   currentState |-> swapPositions(currentState, tilePos, emptyPos),
   movesRemaining |-> maxMoves - (moveCount + 1)]

\* mutant: the record names the tile's own cell as its destination
executeMoveData_toIsFrom(tilePos, emptyPos) ==
  [moveNumber |-> moveCount + 1,
   tileValue |-> getValueAt(currentState, tilePos.row, tilePos.col)[1],
   from |-> tilePos,
   to |-> tilePos,
   previousState |-> currentState,
   currentState |-> executeMoveState(tilePos, emptyPos),
   movesRemaining |-> maxMoves - (moveCount + 1)]

executeMoveData(tilePos, emptyPos) ==
  [moveNumber |-> moveCount + 1,
   tileValue |-> getValueAt(currentState, tilePos.row, tilePos.col)[1],
   from |-> tilePos,
   to |-> emptyPos,
   previousState |-> currentState,
   currentState |-> executeMoveState(tilePos, emptyPos),
   movesRemaining |-> maxMoves - (moveCount + 1)]

\* mutant: the budget is looked at before the board
moveTileAs_budgetFirst(op, row, col) ==
  IF isComplete
    THEN /\ last' = Call(op, FALSE, << >>)
         /\ UNCHANGED << session, now, genvars, searchvars, emitter, uivars, held >>
  ELSE
    /\ startTime' = IF startTime = Null THEN Some(now) ELSE startTime
    /\ IF row < 0 \/ row >= size \/ col < 0 \/ col >= size
         THEN /\ last' = Call(op, FALSE, << Note("INVALID_MOVE", "Position out of bounds") >>)
              /\ UNCHANGED << size, currentState, initialState, solvedState, moveHistory,
                              moveCount, maxMoves, endTime, isComplete, now, genvars, searchvars, emitter, uivars, held >>
       ELSE LET emptyPos == findEmptyPosition(currentState)[1]
                tilePos == Pos(row, col)
            IN IF ~areAdjacent(tilePos, emptyPos)
                 THEN /\ last' = Call(op, FALSE,
                                      << Note("INVALID_MOVE", "Tile not adjacent to empty space") >>)
                      /\ UNCHANGED << size, currentState, initialState, solvedState,
                                      moveHistory, moveCount, maxMoves, endTime, isComplete,
                                      now, genvars, searchvars, emitter, uivars, held >>
               ELSE
                 /\ currentState' = executeMoveState(tilePos, emptyPos)
                 /\ moveCount' = moveCount + 1
                 /\ moveHistory' = Append(moveHistory, executeMoveData(tilePos, emptyPos))
                 /\ IF moveCount' >= maxMoves
                      THEN /\ endTime' = Some(now)
                           /\ last' = Call(op, TRUE, << Note("TILE_MOVED", ""),
                                                        Note("GAME_OVER", "Out of moves") >>)
                           /\ UNCHANGED isComplete
                    ELSE IF isPuzzleSolved(currentState')
                      THEN /\ isComplete' = TRUE
                           /\ endTime' = Some(now)
                           /\ last' = Call(op, TRUE, << Note("TILE_MOVED", ""),
                                                        Note("PUZZLE_SOLVED", "") >>)
                    ELSE /\ last' = Call(op, TRUE, << Note("TILE_MOVED", "") >>)
                         /\ UNCHANGED << endTime, isComplete >>
                 /\ held' = HeldAfterMove
                 /\ UNCHANGED << size, initialState, solvedState, maxMoves, now, genvars, searchvars, emitter, uivars >>

\* mutant: any tile of the grid is exchanged with the empty cell
moveTileAs_anyTile(op, row, col) ==
  IF isComplete
    THEN /\ last' = Call(op, FALSE, << >>)
         /\ UNCHANGED << session, now, genvars, searchvars, emitter, uivars, held >>
  ELSE
    /\ startTime' = IF startTime = Null THEN Some(now) ELSE startTime
    /\ IF row < 0 \/ row >= size \/ col < 0 \/ col >= size
         THEN /\ last' = Call(op, FALSE, << Note("INVALID_MOVE", "Position out of bounds") >>)
              /\ UNCHANGED << size, currentState, initialState, solvedState, moveHistory,
                              moveCount, maxMoves, endTime, isComplete, now, genvars, searchvars, emitter, uivars, held >>
       ELSE LET emptyPos == findEmptyPosition(currentState)[1]
                tilePos == Pos(row, col)
            IN IF tilePos = emptyPos
                 THEN /\ last' = Call(op, FALSE,
                                      << Note("INVALID_MOVE", "Tile not adjacent to empty space") >>)
                      /\ UNCHANGED << size, currentState, initialState, solvedState,
                                      moveHistory, moveCount, maxMoves, endTime, isComplete,
                                      now, genvars, searchvars, emitter, uivars, held >>
               ELSE
                 /\ currentState' = executeMoveState(tilePos, emptyPos)
                 /\ moveCount' = moveCount + 1
                 /\ moveHistory' = Append(moveHistory, executeMoveData(tilePos, emptyPos))
                 /\ IF isPuzzleSolved(currentState')
                      THEN \* _handlePuzzleComplete
                           /\ isComplete' = TRUE
                           /\ endTime' = Some(now)
                           /\ last' = Call(op, TRUE, << Note("TILE_MOVED", ""),
                                                        Note("PUZZLE_SOLVED", "") >>)
                    ELSE IF moveCount' >= maxMoves
                      THEN \* _handleGameOver
                           /\ endTime' = Some(now)
                           /\ last' = Call(op, TRUE, << Note("TILE_MOVED", ""),
                                                        Note("GAME_OVER", "Out of moves") >>)
                           /\ UNCHANGED isComplete
                    ELSE /\ last' = Call(op, TRUE, << Note("TILE_MOVED", "") >>)
                         /\ UNCHANGED << endTime, isComplete >>
                 /\ held' = HeldAfterMove
                 /\ UNCHANGED << size, initialState, solvedState, maxMoves, now, genvars, searchvars, emitter, uivars >>

\* moveTile(row, col), called as `op` (moveTile itself or moveTileByValue)
moveTileAs(op, row, col) ==
  IF isComplete
    THEN /\ last' = Call(op, FALSE, << >>)
         /\ UNCHANGED << session, now, genvars, searchvars, emitter, uivars, held >>
  ELSE
    /\ startTime' = IF startTime = Null THEN Some(now) ELSE startTime
    /\ IF row < 0 \/ row >= size \/ col < 0 \/ col >= size
         THEN /\ last' = Call(op, FALSE, << Note("INVALID_MOVE", "Position out of bounds") >>)
              /\ UNCHANGED << size, currentState, initialState, solvedState, moveHistory,
                              moveCount, maxMoves, endTime, isComplete, now, genvars, searchvars, emitter, uivars, held >>
       ELSE LET emptyPos == findEmptyPosition(currentState)[1]
                tilePos == Pos(row, col)
            IN IF ~areAdjacent(tilePos, emptyPos)
                 THEN /\ last' = Call(op, FALSE,
                                      << Note("INVALID_MOVE", "Tile not adjacent to empty space") >>)
                      /\ UNCHANGED << size, currentState, initialState, solvedState,
                                      moveHistory, moveCount, maxMoves, endTime, isComplete,
                                      now, genvars, searchvars, emitter, uivars, held >>
               ELSE
                 /\ currentState' = executeMoveState(tilePos, emptyPos)
                 /\ moveCount' = moveCount + 1
                 /\ moveHistory' = Append(moveHistory, executeMoveData(tilePos, emptyPos))
                 /\ IF isPuzzleSolved(currentState')
                      THEN \* _handlePuzzleComplete
                           /\ isComplete' = TRUE
                           /\ endTime' = Some(now)
                           /\ last' = Call(op, TRUE, << Note("TILE_MOVED", ""),
                                                        Note("PUZZLE_SOLVED", "") >>)
                    ELSE IF moveCount' >= maxMoves
                      THEN \* _handleGameOver
                           /\ endTime' = Some(now)
                           /\ last' = Call(op, TRUE, << Note("TILE_MOVED", ""),
                                                        Note("GAME_OVER", "Out of moves") >>)
                           /\ UNCHANGED isComplete
                    ELSE /\ last' = Call(op, TRUE, << Note("TILE_MOVED", "") >>)
                         /\ UNCHANGED << endTime, isComplete >>
                 /\ held' = HeldAfterMove
                 /\ UNCHANGED << size, initialState, solvedState, maxMoves, now, genvars, searchvars, emitter, uivars >>

moveTile(row, col) ==
  /\ moveCount < MaxMoveCount
  /\ moveTileAs("moveTile", row, col)

\* mutant: a tile away from the empty cell is refused without calling moveTile
moveTileByValue_silentRefusal(tileValue) ==
  /\ moveCount < MaxMoveCount
  /\ IF \/ tileValue = EMPTY_TILE
        \/ findPosition(currentState, tileValue) = Null
        \/ ~areAdjacent(findPosition(currentState, tileValue)[1],
                        findEmptyPosition(currentState)[1])
       THEN /\ last' = Call("moveTileByValue", FALSE, << >>)
            /\ UNCHANGED << session, now, genvars, searchvars, emitter, uivars, held >>
       ELSE LET tilePos == findPosition(currentState, tileValue)[1]
            IN moveTileAs("moveTileByValue", tilePos.row, tilePos.col)

\* moveTileByValue(tileValue): false for the empty tile or a value not on the
\* board, else what moveTile returns for the tile's cell
moveTileByValue(tileValue) ==
  /\ moveCount < MaxMoveCount
  /\ IF tileValue = EMPTY_TILE \/ findPosition(currentState, tileValue) = Null
       THEN /\ last' = Call("moveTileByValue", FALSE, << >>)
            /\ UNCHANGED << session, now, genvars, searchvars, emitter, uivars, held >>
       ELSE LET tilePos == findPosition(currentState, tileValue)[1]
            IN moveTileAs("moveTileByValue", tilePos.row, tilePos.col)

\* mutant: the completion flag is not consulted
undoLastMove_ignoresComplete ==
  IF Len(moveHistory) = 0
    THEN /\ last' = Call("undoLastMove", FALSE, << >>)
         /\ UNCHANGED << session, now, genvars, searchvars, emitter, uivars, held >>
    ELSE /\ moveHistory' = SubSeq(moveHistory, 1, Len(moveHistory) - 1)
         /\ currentState' = moveHistory[Len(moveHistory)].previousState
         /\ moveCount' = moveCount - 1
         /\ last' = Call("undoLastMove", TRUE, << Note("MOVE_UNDONE", "") >>)
         /\ held' = HeldAfterUndo
         /\ UNCHANGED << size, initialState, solvedState, maxMoves, startTime,
                         endTime, isComplete, now, genvars, searchvars, emitter, uivars >>

\* mutant: the move count is not decremented
undoLastMove_keepsCount ==
  IF Len(moveHistory) = 0 \/ isComplete
    THEN /\ last' = Call("undoLastMove", FALSE, << >>)
         /\ UNCHANGED << session, now, genvars, searchvars, emitter, uivars, held >>
    ELSE /\ moveHistory' = SubSeq(moveHistory, 1, Len(moveHistory) - 1)
         /\ currentState' = moveHistory[Len(moveHistory)].previousState
         /\ last' = Call("undoLastMove", TRUE, << Note("MOVE_UNDONE", "") >>)
         /\ held' = HeldAfterUndo
         /\ UNCHANGED << size, initialState, solvedState, maxMoves, startTime,
                         endTime, isComplete, now, moveCount, genvars, searchvars, emitter, uivars >>

\* mutant: the history length is not tested
undoLastMove_ignoresEmpty ==
  IF isComplete
    THEN /\ last' = Call("undoLastMove", FALSE, << >>)
         /\ UNCHANGED << session, now, genvars, searchvars, emitter, uivars, held >>
    ELSE /\ moveHistory' = SubSeq(moveHistory, 1, Len(moveHistory) - 1)
         /\ currentState' = IF Len(moveHistory) = 0 THEN currentState
                             ELSE moveHistory[Len(moveHistory)].previousState
         /\ moveCount' = moveCount - 1
         /\ last' = Call("undoLastMove", TRUE, << Note("MOVE_UNDONE", "") >>)
         /\ held' = HeldAfterUndo
         /\ UNCHANGED << size, initialState, solvedState, maxMoves, startTime,
                         endTime, isComplete, now, genvars, searchvars, emitter, uivars >>

undoLastMove ==
  IF Len(moveHistory) = 0 \/ isComplete
    THEN /\ last' = Call("undoLastMove", FALSE, << >>)
         /\ UNCHANGED << session, now, genvars, searchvars, emitter, uivars, held >>
    ELSE LET lastMove == moveHistory[Len(moveHistory)]
         IN /\ moveHistory' = SubSeq(moveHistory, 1, Len(moveHistory) - 1)
            /\ currentState' = lastMove.previousState
            /\ moveCount' = moveCount - 1
            /\ last' = Call("undoLastMove", TRUE, << Note("MOVE_UNDONE", "") >>)
            /\ held' = HeldAfterUndo
            /\ UNCHANGED << size, initialState, solvedState, maxMoves, startTime,
                            endTime, isComplete, now, genvars, searchvars, emitter, uivars >>

\* mutant: the completion flag survives the reset
reset_keepsComplete ==
  /\ currentState' = initialState
  /\ moveHistory' = << >>
  /\ moveCount' = 0
  /\ startTime' = Null
  /\ endTime' = Null
  /\ last' = Call("reset", "void", << Note("PUZZLE_RESET", "") >>)
  /\ held' = HeldAfterReset
  /\ UNCHANGED << size, initialState, solvedState, maxMoves, isComplete, now,
                  genvars, searchvars, emitter, uivars >>

\* reset(): a clone of initialState becomes the current board, history,
\* counter, timestamps and flag are cleared, PUZZLE_RESET is emitted
reset ==
  /\ currentState' = initialState
  /\ moveHistory' = << >>
  /\ moveCount' = 0
  /\ startTime' = Null
  /\ endTime' = Null
  /\ isComplete' = FALSE
  /\ last' = Call("reset", "void", << Note("PUZZLE_RESET", "") >>)
  /\ held' = HeldAfterReset
  /\ UNCHANGED << size, initialState, solvedState, maxMoves, now, genvars, searchvars, emitter, uivars >>

Next ==
  \/ Tick
  \/ \E k \in 0..MaxSessionShuffle, b \in Budgets : generatePuzzle(k, b)
  \/ \E board \in GivenBoards[size], b \in Budgets : setPuzzleState(board, b)
  \/ \E p \in MovePositions(size) : moveTile(p[1], p[2])
  \/ \E v \in 0..(size * size) : moveTileByValue(v)
  \/ undoLastMove
  \/ reset

Spec == Init /\ [][Next]_vars

\* ------------------------------------------------ export and import
\* exportState(): the nine fields, by value
exportState ==
  [size |-> size, currentState |-> currentState, initialState |-> initialState,
   moveHistory |-> moveHistory, moveCount |-> moveCount, maxMoves |-> maxMoves,
   startTime |-> startTime, endTime |-> endTime, isComplete |-> isComplete]

\* saved data of a fresh session of size n holding `board`
SavedData(n, board) ==
  [size |-> n, currentState |-> board, initialState |-> board,
   moveHistory |-> << >>, moveCount |-> 0, maxMoves |-> 0,
   startTime |-> Null, endTime |-> Null, isComplete |-> FALSE]

\* solved(n) with tiles 1 and 2 both shown as 2
DuplicateBoard(n) == [createSolvedPuzzle(n) EXCEPT ![0][0] = 2]

\* data handed to importState: what the session itself exports, and fresh
\* data holding a board setPuzzleState is handed, a board with a duplicate
\* value, or a board one row and one column too large
ImportData ==
  {exportState}
    \cup {SavedData(size, board) : board \in GivenBoards[size]}
    \cup {SavedData(size, DuplicateBoard(size)), SavedData(size, createSolvedPuzzle(size + 1))}

importState(data) ==
  /\ size' = data.size
  /\ currentState' = data.currentState
  /\ initialState' = data.initialState
  /\ moveHistory' = data.moveHistory
  /\ moveCount' = data.moveCount
  /\ maxMoves' = IF data.maxMoves = 0 THEN DefaultMaxMoves ELSE data.maxMoves
  /\ startTime' = data.startTime
  /\ endTime' = data.endTime
  /\ isComplete' = data.isComplete
  /\ solvedState' = createSolvedPuzzle(data.size)
  /\ last' = CallWith(data.currentState, "importState", "void",
                      << Note("PUZZLE_STATE_IMPORTED", "") >>)
  /\ held' = HeldAfterInstall
  /\ UNCHANGED << now, genvars, searchvars, emitter, uivars >>

ImportNext ==
  \/ Next
  \/ \E data \in ImportData : importState(data)

ImportSpec == Init /\ [][ImportNext]_vars

\* ------------------------------------------------ slides on any board
\* the boards a saved session may hold: solved(n), and solved(n) after an
\* exchange of two cells, boards that cannot be solved among them
SlideBoards(n) == ExchangedBoards(n, 1)

\* a saved session is loaded
SlideLoad ==
  /\ last = Constructed
  /\ \E board \in SlideBoards(size) : importState(SavedData(size, board))

\* then tiles are moved
SlideMove ==
  /\ last # Constructed
  /\ \E p \in MovePositions(size) : moveTile(p[1], p[2])

\* and moves are undone
SlideUndo ==
  /\ last # Constructed
  /\ undoLastMove

SlideNext ==
  \/ SlideLoad
  \/ SlideMove
  \/ SlideUndo

SlideSpec == Init /\ [][SlideNext]_vars

\* ----------------------------------------------------------- the caller
\* array.map(row => [...row]): a new array of new rows
clone2DArray(array) ==
  [row \in DOMAIN array |-> [col \in DOMAIN array[row] |-> array[row][col]]]

\* the boards a caller reaches through the records of moveHistory
HistoryRefs(from) ==
  {Ref(from, f, i) : f \in {"previousState", "record.currentState"},
                     i \in 1..Len(moveHistory)}

\* mutant: the internal array is returned
getCurrentState_returnsInternal ==
  /\ held' = Ref("getCurrentState", "currentState", 0)
  /\ UNCHANGED << session, now, last, genvars, searchvars, emitter, uivars >>

\* the caller keeps the board getCurrentState() returns
getCurrentState ==
  /\ held' = Copy("getCurrentState", clone2DArray(currentState))
  /\ UNCHANGED << session, now, last, genvars, searchvars, emitter, uivars >>

\* the caller keeps the board getSolvedState() returns
getSolvedState ==
  /\ held' = Copy("getSolvedState", clone2DArray(solvedState))
  /\ UNCHANGED << session, now, last, genvars, searchvars, emitter, uivars >>

\* the caller keeps one of the boards of the object exportState() returns:
\* its fields are the session's own arrays
keepExported ==
  /\ \E h \in {Ref("exportState", "currentState", 0), Ref("exportState", "initialState", 0)}
                \cup HistoryRefs("exportState") : held' = h
  /\ UNCHANGED << session, now, last, genvars, searchvars, emitter, uivars >>

\* the caller keeps a board of a record of the array getMoveHistory()
\* returns: the array is new, its records are the session's own
getMoveHistory ==
  /\ \E h \in HistoryRefs("getMoveHistory") : held' = h
  /\ UNCHANGED << session, now, last, genvars, searchvars, emitter, uivars >>

\* a TILE_MOVED listener keeps a board of the payload, which is the record
\* just pushed onto moveHistory
onTileMoved ==
  /\ last.op \in {"moveTile", "moveTileByValue"}
  /\ last.result = TRUE
  /\ \E f \in {"previousState", "record.currentState"} :
       held' = Ref("TILE_MOVED", f, Len(moveHistory))
  /\ UNCHANGED << session, now, last, genvars, searchvars, emitter, uivars >>

\* a MOVE_UNDONE listener keeps a board of the payload: undoneMove is the
\* popped record, whose previousState is now the current board, and
\* currentState is a clone
onMoveUndone ==
  /\ last.op = "undoLastMove"
  /\ last.result = TRUE
  /\ \E h \in {Ref("MOVE_UNDONE", "currentState", 0),
                Copy("MOVE_UNDONE", clone2DArray(currentState))} : held' = h
  /\ UNCHANGED << session, now, last, genvars, searchvars, emitter, uivars >>

\* what the caller's writing makes of a board: the first two cells of the
\* first row exchanged
Scribbled(board) ==
  [board EXCEPT ![0][0] = board[0][1], ![0][1] = board[0][0]]

\* the caller writes into the board it holds
scribble ==
  /\ held.ref # "none"
  /\ IF held.ref = "copy"
       THEN /\ held' = [held EXCEPT !.board = Some(Scribbled(held.board[1]))]
            /\ UNCHANGED session
     ELSE IF held.ref = "currentState"
       THEN /\ currentState' = Scribbled(currentState)
            /\ UNCHANGED << size, initialState, solvedState, moveHistory, moveCount,
                            maxMoves, startTime, endTime, isComplete, held >>
     ELSE IF held.ref = "initialState"
       THEN /\ initialState' = Scribbled(initialState)
            /\ UNCHANGED << size, currentState, solvedState, moveHistory, moveCount,
                            maxMoves, startTime, endTime, isComplete, held >>
     ELSE IF held.ref = "previousState"
       THEN /\ moveHistory' = [moveHistory EXCEPT ![held.index].previousState = Scribbled(@)]
            /\ UNCHANGED << size, currentState, initialState, solvedState, moveCount,
                            maxMoves, startTime, endTime, isComplete, held >>
     ELSE /\ moveHistory' = [moveHistory EXCEPT ![held.index].currentState = Scribbled(@)]
          /\ UNCHANGED << size, currentState, initialState, solvedState, moveCount,
                          maxMoves, startTime, endTime, isComplete, held >>
  /\ UNCHANGED << now, last, genvars, searchvars, emitter, uivars >>

\* a fresh 3x3 session and a caller holding nothing
AliasInit ==
  /\ PuzzleInit(3)
  /\ now = 1
  /\ last = Constructed
  /\ GenIdle
  /\ SearchIdle
  /\ EmitterIdle
  /\ UiIdle
  /\ held = NoRef

AliasNext ==
  \/ \E p \in MovePositions(size) : moveTile(p[1], p[2])
  \/ undoLastMove
  \/ reset
  \/ getCurrentState
  \/ getSolvedState
  \/ keepExported
  \/ getMoveHistory
  \/ onTileMoved
  \/ onMoveUndone
  \/ scribble

AliasSpec == AliasInit /\ [][AliasNext]_vars

\* ------------------------------------------- generator, one step at a time
\* generateSolvablePuzzle(n, k) is called
GenCall(n, k) ==
  /\ gpc \in {"idle", "done"}
  /\ gsize' = n
  /\ gshuffle' = k
  /\ gen' = GenInit(n)
  /\ gpc' = "loop"
  /\ UNCHANGED << session, now, last, searchvars, emitter, uivars, held >>

\* one iteration of the for loop, with any random index; were validMoves
\* empty, randomMove would be undefined and swapPositions would throw
GenLoop ==
  /\ gpc = "loop"
  /\ gen.i < gshuffle
  /\ IF Len(GenValidMoves(gen, gsize)) = 0
       THEN /\ gpc' = "threw"
            /\ UNCHANGED gen
       ELSE /\ \E k \in 0..(Len(GenValidMoves(gen, gsize)) - 1) :
                 gen' = GenStep(gen, gsize, k)
            /\ UNCHANGED gpc
  /\ UNCHANGED << session, now, last, gsize, gshuffle, searchvars, emitter, uivars, held >>

\* the loop condition fails: return puzzle
GenReturn ==
  /\ gpc = "loop"
  /\ gen.i >= gshuffle
  /\ gpc' = "done"
  /\ UNCHANGED << session, now, last, gsize, gshuffle, gen, searchvars, emitter, uivars, held >>

GenSpecInit ==
  /\ PuzzleInit(4)
  /\ now = 1
  /\ last = Constructed
  /\ GenIdle
  /\ SearchIdle
  /\ EmitterIdle
  /\ UiIdle
  /\ held = NoRef

GenNext ==
  \/ \E n \in Sizes, k \in 0..MaxShuffle : GenCall(n, k)
  \/ GenLoop
  \/ GenReturn

GenSpec == GenSpecInit /\ [][GenNext]_vars

\* ------------------------------------- validator calls on generated boards
\* getValidMoves(puzzle) is called with the board the generator returned
callGetValidMoves ==
  /\ gpc = "done"
  /\ last' = [Call("getValidMoves", getValidMoves(gen.puzzle), << >>)
                EXCEPT !.arg = Some(gen.puzzle)]
  /\ UNCHANGED << session, now, genvars, searchvars, emitter, uivars, held >>

\* validateTileMove(puzzle, row, col) is called with that board
callValidateTileMove(row, col) ==
  /\ gpc = "done"
  /\ last' = [Call("validateTileMove", validateTileMove(gen.puzzle, row, col), << >>)
                EXCEPT !.arg = Some(gen.puzzle), !.pre = Some(Pos(row, col))]
  /\ UNCHANGED << session, now, genvars, searchvars, emitter, uivars, held >>

\* one run of the generator, then one call on the board it returned
ValidatorNext ==
  \/ \E n \in Sizes, k \in 0..MaxShuffle : gpc = "idle" /\ GenCall(n, k)
  \/ GenLoop
  \/ GenReturn
  \/ last = Constructed /\ callGetValidMoves
  \/ \E row \in -1..gsize, col \in -1..gsize :
       last = Constructed /\ callValidateTileMove(row, col)

ValidatorSpec == GenSpecInit /\ [][ValidatorNext]_vars

\* ------------------------------------------------------- analysis calls
\* the record of a call of a function of one board
Analysed(board, op, result) ==
  /\ last' = CallWith(board, op, result, << >>)
  /\ UNCHANGED << session, now, genvars, searchvars, emitter, uivars, held >>

callIsPuzzleSolvable(board) ==
  Analysed(board, "isPuzzleSolvable", isPuzzleSolvable(board))

callValidateWinCondition(board) ==
  Analysed(board, "validateWinCondition", validateWinCondition(board))

callGetManhattanDistance(board) ==
  Analysed(board, "getManhattanDistance", getManhattanDistance(board, Length2D(board)))

callAnalyzeSolutionProgress(board) ==
  Analysed(board, "analyzeSolutionProgress", analyzeSolutionProgress(board))

\* one call, on one of the boards
AnalysisNext ==
  /\ last = Constructed
  /\ \E board \in AnalysisBoards :
       \/ callIsPuzzleSolvable(board)
       \/ callValidateWinCondition(board)
       \/ callGetManhattanDistance(board)
       \/ callAnalyzeSolutionProgress(board)

AnalysisSpec == GenSpecInit /\ [][AnalysisNext]_vars

\* ----------------------------------------- brute-force search, size 3
\* The search works backwards from solved(3): a round adds every board from
\* which one move that validateTileMove approves gives a board already found,
\* until a round adds nothing.  It may stop at any round to report a board
\* of that round.

\* the cell one step in direction i from the empty cell of b
Toward(b, i) ==
  LET e == findEmptyPosition(b)[1]
  IN Pos(e.row + DIRECTIONS[i].y, e.col + DIRECTIONS[i].x)

\* b with its empty cell exchanged with cell p
Before(b, p) == swapPositions(b, findEmptyPosition(b)[1], p)

\* moving the tile at (row, col) of board B is approved and gives board b
MoveGives(B, row, col, b) ==
  LET v == validateTileMove(B, row, col)
  IN /\ v.valid
     /\ swapPositions(B, v.details[1].tilePosition, v.details[1].emptyPosition) = b

\* the boards from which one approved move gives a board of `boards`
PredecessorsOf(boards) ==
  LET steps == {x \in boards \X (1..4) :
                  isValidBoardPosition(Toward(x[1], x[2]).row, Toward(x[1], x[2]).col, 3)}
      cand == {<< x[1], Before(x[1], Toward(x[1], x[2])) >> : x \in steps}
      ok == {x \in cand : LET e == findEmptyPosition(x[1])[1]
                          IN MoveGives(x[2], e.row, e.col, x[1])}
  IN {x[2] : x \in ok}

\* the 3x3 board whose row-major values are f[0], ..., f[8]
BoardOf(f) == [row \in 0..2 |-> [col \in 0..2 |-> f[3 * row + col]]]

SearchInit ==
  /\ PuzzleInit(3)
  /\ now = 1
  /\ last = Constructed
  /\ GenIdle
  /\ svisited = {createSolvedPuzzle(3)}
  /\ sfrontier = {createSolvedPuzzle(3)}
  /\ sreport = Null
  /\ EmitterIdle
  /\ UiIdle
  /\ held = NoRef

\* one round of the search
SearchExpand ==
  /\ sreport = Null
  /\ sfrontier # {}
  /\ LET next == PredecessorsOf(sfrontier) \ svisited
     IN /\ sfrontier' = next
        /\ svisited' = svisited \cup next
  /\ UNCHANGED << session, now, last, genvars, sreport, emitter, uivars, held >>

\* stop and report one board of the last round
SearchReport ==
  /\ sreport = Null
  /\ \E b \in sfrontier : sreport' = Some(b)
  /\ svisited' = {}
  /\ sfrontier' = {}
  /\ UNCHANGED << session, now, last, genvars, emitter, uivars, held >>

\* the search has run to its end
SearchOver == sreport = Null /\ svisited # {} /\ sfrontier = {}

SearchNext ==
  \/ SearchExpand
  \/ SearchReport

SearchSpec == SearchInit /\ [][SearchNext]_vars

\* ------------------------------------------------------ EventEmitter
\* the listener functions: one that just returns, one that throws, one that
\* emits the same event again (while fewer than MaxDepth emit calls are in
\* progress), one that registers the returning function with on (while
\* fewer than MaxRegistrations registrations were made), one that calls off
\* for the returning function
Functions == {"returns", "throws", "emits", "adds", "removes"}

\* on(eventName, listener, options): a listener object is pushed
Register(e, fn, once) ==
  LET listenerObj == [fn |-> fn, once |-> once, id |-> Len(e.regs) + 1]
  IN [e EXCEPT !.events = Append(@, listenerObj), !.regs = Append(@, listenerObj)]

\* off(eventName, listener): every listener object with that function goes
off(events, listener) == SelectSeq(events, LAMBDA listenerObj : listenerObj.fn # listener)

\* emit(eventName) entered with listeners present: the array is cloned
Frame(listeners) ==
  [listeners |-> listeners, atCall |-> listeners, i |-> 1, called |-> FALSE, ran |-> << >>]

Top(e) == e.stack[Len(e.stack)]

SetTop(e, f) == [e EXCEPT !.stack[Len(e.stack)] = f]

\* mutant: the loop runs over the live array
LoopListeners_live(e, f) == e.events

\* the array the loop of an emit call runs over
LoopListeners(e, f) == f.listeners

\* the listener returned: a one-time listener is removed with off, and the
\* loop goes on
Advance(e, listenerObj) ==
  LET e1 == IF listenerObj.once
              THEN [e EXCEPT !.events = off(@, listenerObj.fn)]
              ELSE e
  IN SetTop(e1, [Top(e1) EXCEPT !.i = @ + 1, !.called = FALSE])

\* mutant: the exception leaves emit and every emit call around it
Caught_propagates(e) == [e EXCEPT !.stack = << >>, !.returned = Some("throws")]

\* the listener threw: the exception is caught and the loop goes on
Caught(e) == SetTop(e, [Top(e) EXCEPT !.i = @ + 1, !.called = FALSE])

\* the loop body calls the current listener
Invoke(e) ==
  LET f == Top(e)
      listenerObj == LoopListeners(e, f)[f.i]
      e1 == [SetTop(e, [f EXCEPT !.ran = Append(@, listenerObj.id)])
               EXCEPT !.log = Append(@, listenerObj.id)]
  IN CASE listenerObj.fn = "returns" -> Advance(e1, listenerObj)
       [] listenerObj.fn = "throws" -> Caught(e1)
       [] listenerObj.fn = "adds" ->
            Advance(IF Len(e1.regs) < MaxRegistrations
                      THEN Register(e1, "returns", FALSE)
                      ELSE e1, listenerObj)
       [] listenerObj.fn = "removes" ->
            Advance([e1 EXCEPT !.events = off(@, "returns"),
                               !.offed = @ \cup {"returns"}], listenerObj)
       [] listenerObj.fn = "emits" ->
            IF Len(e1.stack) < MaxDepth /\ Len(e1.events) > 0
              THEN [SetTop(e1, [Top(e1) EXCEPT !.called = TRUE])
                      EXCEPT !.stack = Append(@, Frame(e1.events))]
              ELSE Advance(e1, listenerObj)

EmitterOnly == UNCHANGED << session, now, last, genvars, searchvars, uivars, held >>

\* on(eventName, listener), called from outside a listener
callOn(fn) ==
  /\ emitter.stack = << >>
  /\ Len(emitter.regs) < MaxRegistrations
  /\ emitter' = Register(emitter, fn, FALSE)
  /\ EmitterOnly

\* once(eventName, listener)
callOnce(fn) ==
  /\ emitter.stack = << >>
  /\ Len(emitter.regs) < MaxRegistrations
  /\ emitter' = Register(emitter, fn, TRUE)
  /\ EmitterOnly

\* off(eventName, listener), for a function that is registered
callOff(fn) ==
  /\ emitter.stack = << >>
  /\ \E k \in DOMAIN emitter.events : emitter.events[k].fn = fn
  /\ emitter' = [emitter EXCEPT !.events = off(@, fn), !.offed = @ \cup {fn}]
  /\ EmitterOnly

\* emit(eventName), called from outside a listener
callEmit ==
  /\ emitter.stack = << >>
  /\ emitter.emits < MaxEmits
  /\ emitter' = IF Len(emitter.events) = 0
                  THEN [emitter EXCEPT !.emits = @ + 1, !.returned = Some("false")]
                  ELSE [emitter EXCEPT !.emits = @ + 1, !.returned = Null,
                                       !.stack = << Frame(emitter.events) >>]
  /\ EmitterOnly

\* one turn of the loop of the innermost emit call: the current listener is
\* called, or the emit call it made has returned
emitLoop ==
  /\ emitter.stack # << >>
  /\ LET f == Top(emitter)
     IN /\ f.i <= Len(LoopListeners(emitter, f))
        /\ emitter' = IF f.called
                        THEN Advance(emitter, LoopListeners(emitter, f)[f.i])
                        ELSE Invoke(emitter)
  /\ EmitterOnly

\* the loop of the innermost emit call is over: it returns true
emitReturn ==
  /\ emitter.stack # << >>
  /\ LET f == Top(emitter)
     IN /\ f.i > Len(LoopListeners(emitter, f))
        /\ emitter' = [emitter EXCEPT
                         !.stack = SubSeq(@, 1, Len(@) - 1),
                         !.finished = Some([atCall |-> f.atCall, ran |-> f.ran,
                                            result |-> TRUE]),
                         !.returned = IF Len(emitter.stack) = 1 THEN Some("true") ELSE @]
  /\ EmitterOnly

EmitterNext ==
  \/ \E fn \in Functions : callOn(fn)
  \/ \E fn \in Functions : callOnce(fn)
  \/ \E fn \in Functions : callOff(fn)
  \/ callEmit
  \/ emitLoop
  \/ emitReturn

EmitterSpec == GenSpecInit /\ [][EmitterNext]_vars

\* ------------------------------------------- GameBoard and GameEngine
\* DIFFICULTY.MEDIUM.maxMoves, the engine's gameData.difficulty.maxMoves
DifficultyMaxMoves == 80

Larger(a, b) == IF a >= b THEN a ELSE b

\* Puzzle.getStatistics(): the fields the engine reads; efficiency is kept
\* as the pair (numerator, denominator)
getStatistics ==
  [elapsedTime |-> IF startTime = Null THEN 0
                   ELSE (IF endTime # Null THEN endTime[1] ELSE now) - startTime[1],
   efficiency |-> IF moveCount > 0
                    THEN << maxMoves - moveCount, maxMoves >>
                    ELSE << 1, 1 >>]

\* _calculateFinalScore: completion, time and efficiency bonus
totalBonus(stats) ==
  LET completionBonus == 100
      timeBonus == Larger(0, 50 - (stats.elapsedTime \div 1000))
      efficiencyBonus == (stats.efficiency[1] * 100) \div stats.efficiency[2]
  IN completionBonus + timeBonus + efficiencyBonus

calculateFinalScore(e, stats) == [e EXCEPT !.score = @ + totalBonus(stats)]

\* changeGameState: on entering puzzle_complete, _enterPuzzleCompleteState
\* calls _calculateScore, which takes the statistics of components.puzzle
changeGameState(e, newState) ==
  IF newState = "puzzle_complete"
    THEN calculateFinalScore([e EXCEPT !.gameState = newState], getStatistics)
    ELSE [e EXCEPT !.gameState = newState]

\* GameEngine._handlePuzzleSolved(eventData)
handlePuzzleSolved(e, stats) ==
  calculateFinalScore(
    changeGameState([e EXCEPT !.before = e.score, !.stats = Some(stats)],
                    "puzzle_complete"),
    stats)

\* GameEngine._handleTileMoved(moveData): _updateScore
handleTileMoved(e, movesRemaining) ==
  [e EXCEPT !.score = @ + Larger(1, (movesRemaining * 10) \div DifficultyMaxMoves)]

\* the engine after the notifications of a moveTile call, which the board
\* passes on one by one (it passes on no GAME_OVER, and the engine's
\* INVALID_MOVE handler changes nothing)
RECURSIVE EngineAfter(_, _, _)
EngineAfter(e, notes, i) ==
  IF i > Len(notes) THEN e
  ELSE EngineAfter(
         CASE notes[i].event = "TILE_MOVED" -> handleTileMoved(e, maxMoves - moveCount)
           [] notes[i].event = "PUZZLE_SOLVED" -> handlePuzzleSolved(e, getStatistics)
           [] OTHER -> e,
         notes, i + 1)

\* mutant: isAnimating is cleared only when nothing was thrown
AttemptSettled_noFinally(outcome) ==
  [gameBoard EXCEPT !.isAnimating = (outcome = "threw"), !.pc = "idle",
                    !.outcome = Some(outcome)]

\* _attemptMove is over: the finally block clears isAnimating
AttemptSettled(outcome) ==
  [gameBoard EXCEPT !.isAnimating = FALSE, !.pc = "idle", !.outcome = Some(outcome)]

UiEvents == {"click", "touchend", "keydown"}

\* _handleBoardClick, _handleTouchEnd, _handleKeyDown (Enter or space) on the
\* cell (row, col), up to the call of moveTile in _attemptMove
uiEvent(kind, row, col) ==
  /\ last # Constructed
  /\ gameBoard.pc # "calling"
  /\ moveCount < MaxMoveCount
  /\ IF gameBoard.isAnimating
       THEN /\ gameBoard' = [gameBoard EXCEPT !.event = Some(kind),
                                              !.outcome = Some("ignored")]
            /\ UNCHANGED last
     ELSE IF currentState[row][col] = EMPTY_TILE
       THEN /\ gameBoard' = [gameBoard EXCEPT !.event = Some(kind),
                                              !.outcome = Some("no tile")]
            /\ UNCHANGED last
     ELSE IF ~areAdjacent(Pos(row, col), findEmptyPosition(currentState)[1])
       THEN /\ gameBoard' = [gameBoard EXCEPT !.event = Some(kind),
                                              !.outcome = Some("invalid")]
            /\ UNCHANGED last
     ELSE /\ gameBoard' = [isAnimating |-> TRUE, pc |-> "calling", row |-> row,
                           col |-> col, event |-> Some(kind), outcome |-> Null]
          /\ last' = Call("_attemptMove", "pending", << >>)
  /\ UNCHANGED << session, now, genvars, searchvars, emitter, engine, held >>

\* this.puzzle.moveTile(row, col)
attemptCallsMoveTile ==
  /\ gameBoard.pc = "calling"
  /\ last.op = "_attemptMove"
  /\ moveTileAs("moveTile", gameBoard.row, gameBoard.col)

\* moveTile has returned: its notifications have reached the engine; after a
\* successful move _attemptMove waits for the animation, else it is over
attemptAfterMoveTile ==
  /\ gameBoard.pc = "calling"
  /\ last.op = "moveTile"
  /\ engine' = EngineAfter(engine, last.emitted, 1)
  /\ gameBoard' = IF last.result = TRUE
                    THEN [gameBoard EXCEPT !.pc = "awaiting"]
                    ELSE AttemptSettled("rejected")
  /\ UNCHANGED << session, now, last, genvars, searchvars, emitter, held >>

\* the animation is over and the board is rendered, or one of them throws
attemptResumes(outcome) ==
  /\ gameBoard.pc = "awaiting"
  /\ gameBoard' = AttemptSettled(outcome)
  /\ UNCHANGED << session, now, last, genvars, searchvars, emitter, engine, held >>

\* the engine has a puzzle generated
BoardStart ==
  /\ last = Constructed
  /\ \E k \in 0..MaxSessionShuffle, b \in Budgets : generatePuzzle(k, b)

BoardNext ==
  \/ BoardStart
  \/ Tick
  \/ \E kind \in UiEvents, p \in (0..(size - 1)) \X (0..(size - 1)) :
       uiEvent(kind, p[1], p[2])
  \/ attemptCallsMoveTile
  \/ attemptAfterMoveTile
  \/ \E outcome \in {"succeeded", "threw"} : attemptResumes(outcome)

BoardSpec == Init /\ [][BoardNext]_vars

\* ------------------------------------------------- played solutions
\* 3x3 boards far from solved(3), each with a sequence of tile values that,
\* moved one after the other, solves it
Solutions ==
  { << << 3, 8, 1, 6, 5, 4, 0, 2, 7 >>,
       << 6, 5, 4, 1, 8, 3, 5, 4, 1, 8, 3, 1, 2, 6, 4, 5, 1, 2, 6, 7, 8, 6, 5, 4, 7, 8 >> >>,
    << << 6, 8, 7, 3, 5, 4, 0, 2, 1 >>,
       << 2, 1, 4, 7, 8, 6, 3, 2, 1, 4, 7, 8, 6, 3, 2, 1, 4, 7, 8, 6, 3, 2, 1, 4, 7, 8 >> >>,
    << << 7, 8, 0, 6, 5, 4, 1, 2, 3 >>,
       << 4, 3, 2, 5, 8, 4, 3, 8, 6, 1, 5, 2, 8, 6, 1, 7, 4, 1, 2, 5, 7, 4, 1, 2, 5, 8 >> >>,
    << << 8, 7, 0, 6, 5, 4, 3, 2, 1 >>,
       << 4, 1, 2, 3, 6, 8, 7, 4, 1, 2, 3, 6, 8, 7, 4, 1, 2, 3, 6, 8, 7, 4, 1, 2, 3, 6 >> >>,
    << << 6, 8, 7, 0, 5, 4, 3, 2, 1 >>,
       << 3, 2, 1, 4, 7, 8, 6, 3, 2, 1, 4, 7, 8, 6, 3, 2, 1, 4, 7, 8, 6, 3, 2, 1, 4, 7, 8 >> >>,
    << << 8, 0, 7, 6, 5, 4, 3, 2, 1 >>,
       << 7, 4, 1, 2, 3, 6, 8, 7, 4, 1, 2, 3, 6, 8, 7, 4, 1, 2, 3, 6, 8, 7, 4, 1, 2, 3, 6 >> >>,
    << << 0, 8, 7, 6, 5, 4, 3, 2, 1 >>,
       << 6, 3, 2, 1, 4, 7, 8, 6, 3, 2, 1, 4, 7, 8, 6, 3, 2, 1, 4, 7, 8, 6, 3, 2, 1, 4, 7, 8 >> >>,
    << << 1, 2, 3, 4, 5, 6, 0, 7, 8 >>, << 7, 8 >> >>,
    << << 1, 2, 3, 4, 0, 6, 7, 5, 8 >>, << 5, 8 >> >> }

\* the 3x3 board whose row-major values are the sequence cells
BoardFrom(cells) == [row \in 0..2 |-> [col \in 0..2 |-> cells[3 * row + col + 1]]]

\* a fresh session of size 3
SolveInit ==
  /\ PuzzleInit(3)
  /\ now = 1
  /\ last = Constructed
  /\ GenIdle
  /\ SearchIdle
  /\ EmitterIdle
  /\ UiIdle
  /\ held = NoRef

\* the board is handed to the session, with the default move budget
SolveStart ==
  /\ last = Constructed
  /\ \E x \in Solutions : setPuzzleState(BoardFrom(x[1]), DefaultMaxMoves)

\* the next tile of the board's sequence is moved
SolveStep ==
  /\ last.op # "constructor"
  /\ \E x \in Solutions :
       /\ initialState = BoardFrom(x[1])
       /\ moveCount < Len(x[2])
       /\ LET tilePos == findPosition(currentState, x[2][moveCount + 1])[1]
          IN moveTileAs("moveTile", tilePos.row, tilePos.col)

SolveNext ==
  \/ SolveStart
  \/ SolveStep

SolveSpec == SolveInit /\ [][SolveNext]_vars

\* ------------------------------------------------------------------ C2
\* C2: for size 3, every well-formed board that isPuzzleSolvable accepts can
\* be turned into solved(3) by a finite sequence of moves each of which
\* validateTileMove approves.
C2_AcceptedReachesSolved ==
  SearchOver =>
    \A f \in Permutations(0..8) :
      isPuzzleSolvable(BoardOf(f)) => BoardOf(f) \in svisited

\* the search reports a board it found six or more moves from solved(3),
\* with a tile other than 1 in the first cell, and isPuzzleSolvable accepts it
C2_Witness ==
  /\ sreport # Null
  /\ isPuzzleSolvable(sreport[1])
  /\ sreport[1][0][0] \notin {0, 1}
  /\ sreport[1][1][1] = 0

\* ------------------------------------------------------------------ C1
\* C1: for every size in {3,4,5}, every shuffle count and every sequence of
\* random choices, the board generateSolvablePuzzle returns is accepted by
\* isPuzzleSolvable.
C1_GeneratedIsSolvable ==
  gpc = "done" => isPuzzleSolvable(gen.puzzle)

\* a 4x4 run of at least three steps that ends with the empty cell on an
\* even row from the bottom
C1_Witness ==
  /\ gpc = "done"
  /\ gsize = 4
  /\ gshuffle >= 3
  /\ gen.emptyPos.row = 2
  /\ ~isPuzzleSolved(gen.puzzle)

\* ------------------------------------------------- session claims
MoveOps == {"moveTile", "moveTileByValue"}

\* this step is a call of moveTile or moveTileByValue
MoveCall ==
  \/ \E p \in MovePositions(size) : moveTile(p[1], p[2])
  \/ \E v \in 0..(size * size) : moveTileByValue(v)

\* the last call was a move that succeeded and ended nothing
MovedOn ==
  /\ last.op \in MoveOps
  /\ last.result = TRUE
  /\ last.emitted = << Note("TILE_MOVED", "") >>

\* the move count has reached the budget without a win
Exhausted == ~isComplete /\ moveCount >= maxMoves

\* board is a size x size grid holding each of 0..size*size-1 exactly once
WellFormed(board, n) ==
  /\ DOMAIN board = 0..(n - 1)
  /\ \A row \in 0..(n - 1) : DOMAIN board[row] = 0..(n - 1)
  /\ \A v \in 0..(n * n - 1) :
       Cardinality({p \in (0..(n - 1)) \X (0..(n - 1)) : board[p[1]][p[2]] = v}) = 1

\* C3: on a non-terminal session, a successful move that does not end the
\* session, followed immediately by undo, restores exactly the prior board,
\* the prior move count and the prior history length.
C3_MoveThenUndoRestores ==
  [][(MovedOn /\ undoLastMove) =>
       /\ last'.result = TRUE
       /\ currentState' = last.pre[1].currentState
       /\ moveCount' = last.pre[1].moveCount
       /\ Len(moveHistory') = last.pre[1].historyLength]_vars

\* a second move has been undone on a board that was not the initial one
C3_Witness ==
  /\ last.op = "undoLastMove"
  /\ last.result = TRUE
  /\ moveCount = 1
  /\ currentState # initialState
  /\ ~isComplete

\* C4: once a session is Solved, every later move and every later undo
\* returns failure and changes nothing (board, history, move count,
\* timestamps, completion flag) until reset, generate or setState is called.
C4_SolvedIsTerminal ==
  [][(isComplete /\ (MoveCall \/ undoLastMove)) =>
       (last'.result = FALSE /\ UNCHANGED session)]_vars

\* an undo was refused on a solved session that has moves to undo
C4_Witness ==
  /\ isComplete
  /\ isPuzzleSolved(currentState)
  /\ Len(moveHistory) > 0
  /\ last.op = "undoLastMove"
  /\ last.result = FALSE

\* C5: once a non-winning move brings the move count up to the move budget,
\* every subsequent move call returns failure and leaves the board, the move
\* count and the history unchanged.
C5_ExhaustedRejectsMoves ==
  [][(Exhausted /\ MoveCall) =>
       (last'.result = FALSE /\ UNCHANGED << currentState, moveCount, moveHistory >>)]_vars

\* C6: once a session is Exhausted, undo returns failure and leaves board,
\* history and move count unchanged.
C6_ExhaustedRejectsUndo ==
  [][(Exhausted /\ undoLastMove) =>
       (last'.result = FALSE /\ UNCHANGED << currentState, moveCount, moveHistory >>)]_vars

\* C7: with a move budget of at least 1 the move count never exceeds the
\* budget, so every record's moves-remaining value is non-negative.
C7_CountWithinBudget ==
  maxMoves >= 1 =>
    /\ moveCount <= maxMoves
    /\ \A i \in 1..Len(moveHistory) : moveHistory[i].movesRemaining >= 0

\* C8: a move call on a non-terminal session that is rejected leaves every
\* session field unchanged; a rejected first move does not start the timer.
C8_RejectedMoveChangesNothing ==
  [][(~isComplete /\ moveCount < maxMoves /\ MoveCall /\ last'.result = FALSE) =>
       UNCHANGED session]_vars

\* C9: in every reachable state the current board is a size x size grid
\* containing each value 0..size*size-1 exactly once.
C9_BoardWellFormed == WellFormed(currentState, size)

\* a move has been undone on a generated or given board with a set budget
C9_Witness ==
  /\ last.op = "undoLastMove"
  /\ last.result = TRUE
  /\ ~isPuzzleSolved(initialState)
  /\ maxMoves # DefaultMaxMoves
  /\ currentState = initialState

\* C10: the move count equals the length of the move history, and the i-th
\* history record has moveNumber i.
C10_CountIsHistoryLength ==
  /\ moveCount = Len(moveHistory)
  /\ \A i \in 1..Len(moveHistory) : moveHistory[i].moveNumber = i

\* two moves were made and the second undone
C10_Witness ==
  /\ last.op = "undoLastMove"
  /\ last.result = TRUE
  /\ Len(moveHistory) = 1
  /\ moveHistory[1].moveNumber = 1

\* C11: setPuzzleState with a board that isPuzzleSolvable rejects is refused
\* and the session keeps exactly its previous state; with an accepted board
\* it installs that board as current and initial board, with an empty
\* history, move count 0, cleared timestamps and the completion flag false.
C11_SetStateChecksFirst ==
  [][(last'.op = "setPuzzleState") =>
       IF last'.result = "throws"
         THEN UNCHANGED session
         ELSE /\ last'.result = "void"
              /\ isPuzzleSolvable(last'.arg[1])
              /\ currentState' = last'.arg[1]
              /\ initialState' = last'.arg[1]
              /\ maxMoves' \in Budgets
              /\ moveHistory' = << >>
              /\ moveCount' = 0
              /\ startTime' = Null
              /\ endTime' = Null
              /\ isComplete' = FALSE]_vars

\* a board was refused by a session that had a move in its history
C11_Witness ==
  /\ last.op = "setPuzzleState"
  /\ last.result = "throws"
  /\ Len(moveHistory) = 1
  /\ startTime # Null
  /\ currentState # initialState

\* C12: importState never leaves the session holding a current board that is
\* structurally malformed (wrong dimensions, duplicate or missing values) or
\* unsolvable.
C12_ImportKeepsBoardSound ==
  /\ WellFormed(currentState, size)
  /\ isPuzzleSolvable(currentState)

\* C13: the boards returned by getCurrentState() and getSolvedState() are
\* fresh copies: writing into a returned board never changes the session's
\* current board, initial board, solved board or any board in the history.
C13_QueriedBoardsAreCopies ==
  [][(held.from \in {"getCurrentState", "getSolvedState"} /\ scribble) =>
       UNCHANGED << currentState, initialState, solvedState, moveHistory >>]_vars

\* the caller has written into a board getCurrentState() returned after a
\* move, and the session's board is as it was
C13_Witness ==
  /\ held.from = "getCurrentState"
  /\ held.board = Some(Scribbled(currentState))
  /\ Len(moveHistory) >= 1
  /\ moveHistory[Len(moveHistory)].currentState = currentState

\* C14: writing into a board obtained from exportState(), from the records
\* getMoveHistory() returns, or from the payload of a TILE_MOVED or
\* MOVE_UNDONE notification never changes the session's current board, its
\* initial board, or the board a later undo restores.
C14_HandedOutBoardsAreCopies ==
  [][(held.from \in {"exportState", "getMoveHistory", "TILE_MOVED", "MOVE_UNDONE"}
        /\ scribble) =>
       /\ currentState' = currentState
       /\ initialState' = initialState
       /\ \A i \in 1..Len(moveHistory) :
            moveHistory'[i].previousState = moveHistory[i].previousState]_vars

\* how many of the notifications in `emitted` are `event`
CountOf(event, emitted) ==
  Cardinality({i \in 1..Len(emitted) : emitted[i].event = event})

\* this step is a move call that returned true
Moved ==
  /\ last'.op \in MoveOps
  /\ last'.result = TRUE
  /\ currentState' # currentState

\* C15: a successful move whose resulting board equals solved(S) makes the
\* session Solved (completion flag set, end time stamped, isSolved() true)
\* and emits exactly one PUZZLE_SOLVED and no GAME_OVER notification, also
\* when that move brings the move count to the budget.
C15_SolvingMoveEndsSolved ==
  [][(Moved /\ currentState' = solvedState) =>
       /\ isComplete'
       /\ endTime' = Some(now)
       /\ isPuzzleSolved(currentState')
       /\ CountOf("PUZZLE_SOLVED", last'.emitted) = 1
       /\ CountOf("GAME_OVER", last'.emitted) = 0]_vars

\* the move that used up the budget solved the puzzle
C15_Witness ==
  /\ last.op \in MoveOps
  /\ last.result = TRUE
  /\ currentState = solvedState
  /\ moveCount = maxMoves
  /\ isComplete

\* C16: every successful move emits exactly one of PUZZLE_SOLVED, GAME_OVER
\* and TILE_MOVED: TILE_MOVED only when the move neither solves the puzzle
\* nor exhausts the budget.
C16_OneNotificationPerMove ==
  (last.op \in MoveOps /\ last.result = TRUE) =>
    /\ Len(last.emitted) = 1
    /\ last.emitted[1].event =
         IF isPuzzleSolved(currentState) THEN "PUZZLE_SOLVED"
         ELSE IF moveCount >= maxMoves THEN "GAME_OVER"
         ELSE "TILE_MOVED"

\* the cell of `board` that holds the empty tile
EmptyCell(board) ==
  CHOOSE p \in (DOMAIN board) \X (DOMAIN board) : board[p[1]][p[2]] = 0

\* (row, col) is a cell of the grid one step up, down, left or right of e
NextTo(row, col, e, n) ==
  /\ row \in 0..(n - 1)
  /\ col \in 0..(n - 1)
  /\ \/ (row = e[1] /\ (col = e[2] - 1 \/ col = e[2] + 1))
     \/ (col = e[2] /\ (row = e[1] - 1 \/ row = e[1] + 1))

\* where the cell named by a direction lies, seen from the empty cell
DirectionOf(row, col, e) ==
  IF row = e[1] - 1 THEN "up"
  ELSE IF row = e[1] + 1 THEN "down"
  ELSE IF col = e[2] - 1 THEN "left"
  ELSE "right"

DirectionRank == [up |-> 1, down |-> 2, left |-> 3, right |-> 4]

\* C17: for every well-formed board, getValidMoves lists exactly the
\* in-bounds cells orthogonally adjacent to the empty cell, each with the
\* value of the tile in that cell and its direction name, in the fixed order
\* up, down, left, right; every listed cell passes validateTileMove and no
\* unlisted cell does.
C17_ValidMovesAreTheNeighbours ==
  last.op = "getValidMoves" =>
    LET board == last.arg[1]
        n == Cardinality(DOMAIN board)
        e == EmptyCell(board)
        moves == last.result
        listed == {<< moves[i].row, moves[i].col >> : i \in 1..Len(moves)}
    IN /\ listed = {p \in (0..(n - 1)) \X (0..(n - 1)) : NextTo(p[1], p[2], e, n)}
       /\ Cardinality(listed) = Len(moves)
       /\ \A i \in 1..Len(moves) :
            /\ moves[i].tileValue = board[moves[i].row][moves[i].col]
            /\ moves[i].direction = DirectionOf(moves[i].row, moves[i].col, e)
       /\ \A i, j \in 1..Len(moves) :
            i < j => DirectionRank[moves[i].direction] < DirectionRank[moves[j].direction]
       /\ \A row \in -1..n, col \in -1..n :
            validateTileMove(board, row, col).valid <=> << row, col >> \in listed

\* the list for the board [[1,2,3],[4,5,6],[7,0,8]]: 5 up, 7 left, 8 right
C17_Witness ==
  /\ last.op = "getValidMoves"
  /\ last.arg = Some([createSolvedPuzzle(3) EXCEPT ![2][1] = 0, ![2][2] = 8])
  /\ last.result = << [row |-> 1, col |-> 1, tileValue |-> 5, direction |-> "up"],
                      [row |-> 2, col |-> 0, tileValue |-> 7, direction |-> "left"],
                      [row |-> 2, col |-> 2, tileValue |-> 8, direction |-> "right"] >>

\* C18: validateTileMove(board, row, col) on a well-formed board returns, in
\* this precedence: the out-of-bounds failure when (row, col) is outside the
\* grid; the empty-tile failure when the cell holds 0; the not-adjacent
\* failure when the cell is not orthogonally adjacent to the empty cell;
\* otherwise success with the tile value, the tile position and the empty
\* position.  It never modifies the board.
C18_ValidationPrecedence ==
  last.op = "validateTileMove" =>
    LET board == last.arg[1]
        n == Cardinality(DOMAIN board)
        row == last.pre[1].row
        col == last.pre[1].col
        e == EmptyCell(board)
        v == last.result
    IN /\ gen.puzzle = board
       /\ IF ~(row \in 0..(n - 1) /\ col \in 0..(n - 1))
            THEN ~v.valid /\ v.reason = "Position out of bounds"
          ELSE IF board[row][col] = 0
            THEN ~v.valid /\ v.reason = "Cannot move empty tile"
          ELSE IF ~NextTo(row, col, e, n)
            THEN ~v.valid /\ v.reason = "Tile not adjacent to empty space"
          ELSE /\ v.valid
               /\ v.details = Some([tileValue |-> board[row][col],
                                    tilePosition |-> Pos(row, col),
                                    emptyPosition |-> Pos(e[1], e[2])])

\* the empty cell of a shuffled 4x4 board was selected
C18_Witness ==
  /\ last.op = "validateTileMove"
  /\ last.result.reason = "Cannot move empty tile"
  /\ Cardinality(DOMAIN last.arg[1]) = 4
  /\ last.pre = Some(Pos(2, 2))

\* C19: every move rejected on a non-terminal session emits exactly one
\* INVALID_MOVE notification whose reason is the reason validateTileMove
\* gives for that board and cell; selecting the empty cell is reported with
\* the empty-tile reason, not as not-adjacent.
C19_RejectionGivesValidatorReason ==
  [][\A p \in MovePositions(size) :
       (~isComplete /\ moveCount < maxMoves /\ last'.op = "moveTile"
          /\ last'.result = FALSE /\ moveTile(p[1], p[2])) =>
         last'.emitted =
           << Note("INVALID_MOVE", validateTileMove(currentState, p[1], p[2]).reason) >>]_vars

\* C20: reset() makes the current board the captured initial board, empties
\* the history, zeroes the move count, clears both timestamps and the
\* completion flag, from any state; the captured board is the board of the
\* last generatePuzzle or accepted setPuzzleState (the solved board on a
\* fresh session); moves and undos leave it alone; after a reset moveTile
\* accepts exactly the moves validateTileMove approves.
C20_ResetRestoresInitialBoard ==
  /\ Init => initialState = createSolvedPuzzle(size)
  /\ [][/\ last'.op = "reset" =>
             /\ currentState' = initialState
             /\ initialState' = initialState
             /\ moveHistory' = << >>
             /\ moveCount' = 0
             /\ startTime' = Null
             /\ endTime' = Null
             /\ isComplete' = FALSE
        /\ last'.op = "generatePuzzle" => initialState' = currentState'
        /\ last'.op = "setPuzzleState" =>
             initialState' = IF last'.result = "void" THEN last'.arg[1] ELSE initialState
        /\ last'.op \in {"moveTile", "moveTileByValue", "undoLastMove"} =>
             initialState' = initialState
        /\ last.op = "reset" =>
             \A p \in MovePositions(size) :
               moveTile(p[1], p[2]) =>
                 last'.result = validateTileMove(currentState, p[1], p[2]).valid]_vars

\* a reset has brought back a shuffled initial board
C20_Witness ==
  /\ last.op = "reset"
  /\ ~isPuzzleSolved(initialState)
  /\ currentState = initialState
  /\ moveCount = 0
  /\ ~isComplete

\* C21: undoLastMove on a session whose history is empty returns false, emits
\* nothing and changes no field; the move count is never negative.
C21_UndoOnEmptyHistoryFails ==
  /\ [](moveCount >= 0)
  /\ [][(Len(moveHistory) = 0 /\ undoLastMove) =>
         (last'.result = FALSE /\ last'.emitted = << >> /\ UNCHANGED session)]_vars

\* a move was made and undone, and a second undo found the history empty
C21_Witness ==
  /\ last.op = "undoLastMove"
  /\ last.result = FALSE
  /\ Len(moveHistory) = 0
  /\ startTime # Null
  /\ ~isComplete

\* the cells in which board differs from the solved board of its size
Differing(board) ==
  LET solved == createSolvedPuzzle(Length2D(board))
  IN {p \in (DOMAIN board) \X (DOMAIN board) : board[p[1]][p[2]] # solved[p[1]][p[2]]}

\* C22: for S in {3, 4, 5}, solved(S) with two distinct non-empty tiles
\* exchanged (for S = 4, tiles 14 and 15 among them) is reported unsolvable
\* by isPuzzleSolvable.
C22_OneExchangeIsUnsolvable ==
  (/\ last.op = "isPuzzleSolvable"
   /\ Cardinality(Differing(last.arg[1])) = 2
   /\ \A p \in Differing(last.arg[1]) : last.arg[1][p[1]][p[2]] # EMPTY_TILE) =>
     last.result = FALSE

\* the 4 x 4 board ending 13, 15, 14, 0 was reported unsolvable
C22_Witness ==
  /\ last.op = "isPuzzleSolvable"
  /\ last.arg = Some([createSolvedPuzzle(4) EXCEPT ![3][1] = 15, ![3][2] = 14])
  /\ last.result = FALSE

\* isSolved(): isPuzzleSolved of the current board
isSolved == isPuzzleSolved(currentState)

\* C23: generatePuzzle with 0 shuffle steps leaves the current board and the
\* initial board equal to solved(S), the move count 0 and the history empty,
\* and isSolved() is true at once.
C23_GenerateZeroIsSolved ==
  [][(last'.op = "generatePuzzle" /\ \E b \in Budgets : generatePuzzle(0, b)) =>
       /\ currentState' = createSolvedPuzzle(size)
       /\ initialState' = createSolvedPuzzle(size)
       /\ moveCount' = 0
       /\ moveHistory' = << >>
       /\ isSolved']_vars

\* generatePuzzle was called with 0 steps: one step never leaves the board solved
C23_Witness ==
  /\ last.op = "generatePuzzle"
  /\ isSolved
  /\ currentState = initialState
  /\ moveCount = 0
  /\ moveHistory = << >>

\* C24: validateWinCondition(board).solved is true exactly when board is
\* solved(S), and then misplacedTiles is empty; it is false when any cell
\* differs; the misplaced entries are the differing cells, so correctTiles
\* plus their number is S * S; the verdict agrees with isPuzzleSolved(board).
C24_WinConditionIsEqualityWithSolved ==
  last.op = "validateWinCondition" =>
    LET board == last.arg[1]
        n == Length2D(board)
        result == last.result
    IN /\ result.solved <=> (board = createSolvedPuzzle(n))
       /\ result.solved => result.misplacedTiles = << >>
       /\ Differing(board) # {} => ~result.solved
       /\ {<< m.position.row, m.position.col >> :
             m \in {result.misplacedTiles[i] : i \in 1..Len(result.misplacedTiles)}}
            = Differing(board)
       /\ result.correctTiles + Len(result.misplacedTiles) = n * n
       /\ result.totalTiles = n * n
       /\ result.solved = isPuzzleSolved(board)

\* a 3 x 3 board with four cells out of place was found not solved
C24_Witness ==
  /\ last.op = "validateWinCondition"
  /\ Length2D(last.arg[1]) = 3
  /\ ~last.result.solved
  /\ Len(last.result.misplacedTiles) = 4
  /\ last.result.correctTiles = 5

\* C25: for S in {3, 4, 5} the Manhattan distance and the linear-conflict
\* count of solved(S) are 0, and the Manhattan distance of every other
\* well-formed board is strictly positive; getManhattanDistance and the loop
\* of analyzeSolutionProgress give the same distance.
C25_DistanceZeroOnlyWhenSolved ==
  LET board == last.arg[1]
      n == Length2D(board)
      solved == createSolvedPuzzle(n)
  IN /\ last.op = "getManhattanDistance" =>
          /\ board = solved => last.result = 0
          /\ board # solved => last.result > 0
     /\ last.op = "analyzeSolutionProgress" =>
          /\ board = solved =>
               (last.result.manhattanDistance = 0 /\ last.result.linearConflicts = 0)
          /\ board # solved => last.result.manhattanDistance > 0
          /\ last.result.manhattanDistance = getManhattanDistance(board, n)

\* the distance of the 3 x 3 board with tiles 1 and 2 exchanged was measured
C25_Witness ==
  /\ last.op = "getManhattanDistance"
  /\ last.arg = Some([createSolvedPuzzle(3) EXCEPT ![0][0] = 2, ![0][1] = 1])
  /\ last.result = 2

\* the cell of board that holds value v
CellHolding(board, v) ==
  CHOOSE p \in (DOMAIN board) \X (DOMAIN board) : board[p[1]][p[2]] = v

\* C26: for every tile value v in 1..S*S-1, moveTileByValue(v) returns what
\* moveTile(row, col) returns for the cell holding v and has the same effect
\* on board, history, move count, timestamps, completion flag and
\* notifications; moveTileByValue(0) returns false and changes nothing.
C26_MoveByValueIsMoveAtCell ==
  [][last'.op = "moveTileByValue" =>
       \A v \in 0..(size * size - 1) :
         moveTileByValue(v) =>
           IF v = EMPTY_TILE
             THEN last'.result = FALSE /\ last'.emitted = << >> /\ UNCHANGED session
             ELSE LET p == CellHolding(currentState, v)
                  IN moveTileAs(last'.op, p[1], p[2])]_vars

\* a tile named by its value was moved
C26_Witness ==
  /\ last.op = "moveTileByValue"
  /\ last.result = TRUE
  /\ Len(moveHistory) = 1
  /\ moveHistory[1].tileValue # EMPTY_TILE

\* the registry once a collaborator has subscribed one listener to each of
\* EVENTS.MOVE_UNDONE, EVENTS.PUZZLE_RESET and EVENTS.PUZZLE_GENERATED; a
\* subscription that throws registers nothing
LifecycleListeners ==
  LET first == on(<< >>, EventName("MOVE_UNDONE"), "undoListener").events
      second == on(first, EventName("PUZZLE_RESET"), "resetListener").events
  IN on(second, EventName("PUZZLE_GENERATED"), "generateListener").events

RECURSIVE InvokedFrom(_, _, _)
\* the listeners called by the emit calls notes[i], notes[i + 1], ...
InvokedFrom(events, notes, i) ==
  IF i > Len(notes) THEN << >>
  ELSE emit(events, EventName(notes[i].event)) \o InvokedFrom(events, notes, i + 1)

\* C27: move-undone, puzzle-reset and puzzle-generated are distinct events a
\* listener can subscribe to: the listener subscribed to move-undone is
\* called exactly once by each successful undo and not by reset or generate,
\* and likewise for the other two.
C27_LifecycleEventsReachTheirListeners ==
  LET invoked == InvokedFrom(LifecycleListeners, last.emitted, 1)
  IN /\ (last.op = "undoLastMove" /\ last.result = TRUE) => invoked = << "undoListener" >>
     /\ last.op = "reset" => invoked = << "resetListener" >>
     /\ last.op = "generatePuzzle" => invoked = << "generateListener" >>

\* C28: on a session that is neither solved nor out of moves, moveTile(row,
\* col) returns true exactly when validateTileMove(currentState, row, col)
\* reports a valid move, for positions on and off the grid and for the empty
\* cell.
C28_MoveSucceedsIffValidatorApproves ==
  [][(last'.op = "moveTile" /\ ~isComplete /\ moveCount < maxMoves) =>
       \A p \in MovePositions(size) :
         moveTile(p[1], p[2]) =>
           last'.result = validateTileMove(currentState, p[1], p[2]).valid]_vars

\* moveTile has refused a position on a board that is not solved, in a session
\* that is not over
C28_Witness ==
  /\ last.op = "moveTile"
  /\ last.result = FALSE
  /\ last.emitted # << >>
  /\ ~isPuzzleSolved(currentState)
  /\ ~isComplete
  /\ moveCount < maxMoves

\* C29: a successful moveTile(row, col) exchanges the contents of cell (row,
\* col) and of the empty cell and leaves every other cell, the initial board
\* and the budget unchanged; the move count grows by 1 and one record is
\* appended whose tile value, source, destination (the cell that was
\* empty), before-board and after-board describe that exchange.
C29_MoveExchangesTileAndEmptyCell ==
  [][(last' # last /\ last'.op \in MoveOps /\ last'.result = TRUE) =>
       LET record == moveHistory'[Len(moveHistory')]
           from == record.from
           to == record.to
           cells == (0..(size - 1)) \X (0..(size - 1))
       IN /\ Len(moveHistory') = Len(moveHistory) + 1
          /\ SubSeq(moveHistory', 1, Len(moveHistory)) = moveHistory
          /\ moveCount' = moveCount + 1
          /\ << from.row, from.col >> \in cells
          /\ << to.row, to.col >> \in cells
          /\ currentState[to.row][to.col] = EMPTY_TILE
          /\ currentState[from.row][from.col] = record.tileValue
          /\ record.tileValue # EMPTY_TILE
          /\ currentState'[to.row][to.col] = record.tileValue
          /\ currentState'[from.row][from.col] = EMPTY_TILE
          /\ \A c \in cells \ {<< from.row, from.col >>, << to.row, to.col >>} :
               currentState'[c[1]][c[2]] = currentState[c[1]][c[2]]
          /\ record.previousState = currentState
          /\ record.currentState = currentState'
          /\ initialState' = initialState
          /\ maxMoves' = maxMoves
          /\ last'.op = "moveTile" =>
               \A p \in cells : moveTile(p[1], p[2]) => from = Pos(p[1], p[2])]_vars

\* a second tile has been moved
C29_Witness ==
  /\ last.op = "moveTile"
  /\ last.result = TRUE
  /\ Len(moveHistory) = 2
  /\ moveHistory[2].from # moveHistory[1].to

\* C30: in generateSolvablePuzzle for S in {3, 4, 5}, every shuffle step
\* picks a defined cell of the grid orthogonally adjacent to the empty cell;
\* from the second step on it is never the position the empty cell had
\* before the previous step; the filtered candidate list is never empty.
C30_ShuffleStepsNeverReverse ==
  /\ [](gpc # "threw")
  /\ [](gpc = "loop" /\ gen.i < gshuffle => Len(GenValidMoves(gen, gsize)) >= 1)
  /\ [][(gpc = "loop" /\ gen'.i = gen.i + 1) =>
         LET chosen == gen'.emptyPos
         IN /\ chosen.row \in 0..(gsize - 1)
            /\ chosen.col \in 0..(gsize - 1)
            /\ Abs(chosen.row - gen.emptyPos.row) + Abs(chosen.col - gen.emptyPos.col) = 1
            /\ gen.lastMove # Null => chosen # gen.lastMove[1]
            /\ gen'.lastMove = Some(gen.emptyPos)
            /\ gen'.puzzle[chosen.row][chosen.col] = EMPTY_TILE
            /\ gen.i >= 1 => gen.lastMove # Null]_vars

\* a 3 x 3 run went through the corner (0, 2), where one candidate was left
C30_Witness ==
  /\ gsize = 3
  /\ gen.i = 3
  /\ gen.lastMove = Some(Pos(0, 2))
  /\ gen.emptyPos = Pos(0, 1)


\* ----------------------------------------------------------------- C31
\* C31: for every solvable 3x3 board, the estimatedMovesToSolution that
\* analyzeSolutionProgress reports (manhattanDistance + 2 * linearConflicts)
\* is at most the length of the shortest sequence of legal moves that solves
\* the board.  A session that has solved the board it was given has played
\* a solving sequence of moveCount moves; the shortest one is no longer, so
\* the estimate for the given board is at most moveCount.
C31_EstimateIsAdmissible ==
  (last.op = "moveTile" /\ isPuzzleSolved(currentState))
    => analyzeSolutionProgress(initialState).estimatedMovesToSolution <= moveCount


\* ----------------------------------------------------------------- C32
\* the number of calls made to the listener of registration id
CallsOf(id) == Cardinality({j \in DOMAIN emitter.log : emitter.log[j] = id})

\* C32: a listener registered with once is called at most once, whatever
\* emit calls follow, re-entrant ones and ones in which the listener throws
\* included.
C32_OnceListenerRunsAtMostOnce ==
  \A id \in DOMAIN emitter.regs : emitter.regs[id].once => CallsOf(id) <= 1

\* ----------------------------------------------------------------- C33
\* C33: when a listener throws during emit, every other listener registered
\* when emit was called is still called, the exception does not leave emit,
\* and emit returns true.
C33_ThrowingListenerIsContained ==
  /\ emitter.returned # Some("throws")
  /\ \A f \in { emitter.finished[k] : k \in DOMAIN emitter.finished } :
       (\E k \in DOMAIN f.atCall : f.atCall[k].fn = "throws")
         => /\ f.result = TRUE
            /\ \A k \in DOMAIN f.atCall :
                 \E j \in DOMAIN f.ran : f.ran[j] = f.atCall[k].id

\* an outermost emit call has returned true after its first listener threw
\* and its second listener was called
C33_Witness ==
  /\ emitter.finished # Null
  /\ emitter.stack = << >>
  /\ emitter.returned = Some("true")
  /\ Len(emitter.finished[1].atCall) = 2
  /\ emitter.finished[1].atCall[1].fn = "throws"
  /\ emitter.finished[1].ran = << 1, 2 >>

\* ----------------------------------------------------------------- C34
\* C34: emit calls exactly the listeners registered when it was called, each
\* once and in registration order; on and off calls made by listeners during
\* the emission do not change which listeners are called.
C34_EmitRunsTheListenersAtCall ==
  \A f \in { emitter.finished[k] : k \in DOMAIN emitter.finished } :
    f.ran = [k \in DOMAIN f.atCall |-> f.atCall[k].id]

\* an emit call has returned whose first listener registered or removed a
\* listener, so that the listeners after the call differ from those at the call
C34_Witness ==
  /\ emitter.finished # Null
  /\ emitter.stack = << >>
  /\ Len(emitter.finished[1].atCall) = 2
  /\ emitter.finished[1].atCall[1].fn \in {"adds", "removes"}
  /\ emitter.finished[1].atCall[2].fn = "returns"
  /\ emitter.events # emitter.finished[1].atCall

\* ----------------------------------------------------------------- C35
\* C35: when a one-time listener has been called only its own registration is
\* removed: a registration made with on stays registered as long as off is
\* not called for its function, also when the same function is registered
\* with once as well.
C35_OnceRemovesOnlyItsRegistration ==
  \A id \in DOMAIN emitter.regs :
    (~emitter.regs[id].once /\ emitter.regs[id].fn \notin emitter.offed)
      => \E k \in DOMAIN emitter.events : emitter.events[k].id = id


\* ----------------------------------------------------------------- C36
\* C36: on a well-formed board of size 3 or 4 isPuzzleSolvable gives the same
\* verdict before and after every legal slide, so that the current board of
\* a session has the verdict of the board the session started from, whatever
\* moves and undos were made.
C36_SlidesKeepTheVerdict ==
  /\ isPuzzleSolvable(currentState) = isPuzzleSolvable(initialState)
  /\ \A k \in DOMAIN moveHistory :
       isPuzzleSolvable(moveHistory[k].previousState)
         = isPuzzleSolvable(moveHistory[k].currentState)

\* a 4x4 board that cannot be solved, after a tile was moved down into the
\* empty cell and a second move was made and undone
C36_Witness ==
  /\ size = 4
  /\ ~isPuzzleSolvable(initialState)
  /\ last.op = "undoLastMove"
  /\ last.result = TRUE
  /\ Len(moveHistory) = 1
  /\ moveHistory[1].from.row + 1 = moveHistory[1].to.row


\* ----------------------------------------------------------------- C37
\* C37: every successful move changes the Manhattan distance of the board by
\* exactly one, up or down; so after any moves and undos the distance of the
\* current board is at most that of the initial board plus the move count,
\* and has the parity of that sum.
C37_MoveChangesDistanceByOne ==
  /\ \A k \in DOMAIN moveHistory :
       Abs(getManhattanDistance(moveHistory[k].currentState, size)
             - getManhattanDistance(moveHistory[k].previousState, size)) = 1
  /\ getManhattanDistance(currentState, size)
       <= getManhattanDistance(initialState, size) + moveCount
  /\ (getManhattanDistance(initialState, size) + moveCount
        - getManhattanDistance(currentState, size)) % 2 = 0

\* after two moves and an undo the board is one step further from solved
\* than the board the session started with
C37_Witness ==
  /\ last.op = "undoLastMove"
  /\ last.result = TRUE
  /\ moveCount = 1
  /\ getManhattanDistance(initialState, size) > 0
  /\ getManhattanDistance(currentState, size)
       = getManhattanDistance(initialState, size) + 1


\* ----------------------------------------------------------------- C38
\* C38: while isAnimating is true no click, touch or key handler starts a
\* move, so that at most one move attempt is in progress; and isAnimating is
\* false again when _attemptMove is over, whether the move succeeded, was
\* rejected by the puzzle, or something was thrown.
C38_OneAttemptAtATime ==
  /\ [](gameBoard.pc = "idle" => ~gameBoard.isAnimating)
  /\ [][(gameBoard'.pc = "calling" /\ gameBoard.pc # "calling")
          => (gameBoard.pc = "idle" /\ ~gameBoard.isAnimating)]_vars
  /\ [][(gameBoard.isAnimating /\ gameBoard'.event # gameBoard.event)
          => (gameBoard'.outcome = Some("ignored") /\ UNCHANGED << session, last >>)]_vars

\* a move attempt is waiting for its animation, and a click, touch or key
\* event that arrived meanwhile was ignored
C38_Witness ==
  /\ gameBoard.pc = "awaiting"
  /\ gameBoard.isAnimating
  /\ gameBoard.outcome = Some("ignored")
  /\ moveCount = 1
  /\ last.op = "moveTile"

\* ----------------------------------------------------------------- C39
\* C39: each puzzle-solved notification adds the completion bonus (completion,
\* time and efficiency bonus, as _calculateFinalScore computes it) to the
\* engine's score exactly once.
C39_BonusAddedOnce ==
  engine.stats # Null => engine.score = engine.before + totalBonus(engine.stats[1])

====
